---------------------------- MODULE Spec2Model ----------------------------
(***************************************************************************)
(* RFC 9421 HTTP message signatures of node-api-template: the component    *)
(* extractor, the two signature base builders, the header parser, the      *)
(* algorithm registry, the verifier and the signer.                        *)
(*                                                                         *)
(* Strings that the code formats, parses or case-maps are sequences of     *)
(* one-character strings, so that formatting and parsing are computed as   *)
(* the code computes them.  A JavaScript `undefined` is the empty tuple    *)
(* None and a defined value v is the one-element tuple Some(v).            *)
(***************************************************************************)
EXTENDS Integers, Sequences, FiniteSets, TLC

VARIABLES
    clock,      \* Math.floor(Date.now() / 1000) of the process
    registry,   \* algorithms/index.ts: the Map name -> SignatureAlgorithm
    bIn,        \* inputs of one run of the two signature base builders
    inBase,     \* result of buildSignatureBase on the received request
    outBase,    \* result of buildOutgoingSignatureBase on the description
    vpc,        \* verifySignature: "idle", "resolving", "verifying", "returned"
    vargs,      \* verifySignature: its arguments
    vlocals,    \* verifySignature: algo, the clock readings, publicKey, data
    vresult,    \* verifySignature: how the call ended
    vcalls,     \* verifySignature: the collaborators it invoked, in order
    signer,     \* sign.ts: the Signer made by createSigner, if any
    sent,       \* the request description signed and the headers sign returned
    arrived,    \* the request received for it, as changed on its way
    mopts,      \* httpSig: the options the handler was made with, if it was made
    mpc,        \* the handler: "idle", "awaiting" (verifySignature), "done"
    mreq,       \* the handler: the request object it was called with
    reply,      \* the handler: the reply object it was called with
    mlog,       \* the handler: what it called and did, in order
    pIn,        \* the signature inputs a Signature-Input header is written from
    pOut,       \* how parseSignatureInput ended on that header
    regLog,     \* the algorithms handed to registerAlgorithm, in order
    fetchers,   \* signature-base.ts: the URL of each key-set fetcher made, in order
    defaultResolver, \* signature-base.ts: the memoized default resolver, if any
    held,       \* the resolvers callers hold: the URL asked for, the fetcher closed over
    lastResolution, \* the resolver whose resolve was called last, if any
    rnow,       \* the time of the Redis server, in ticks
    locks,      \* Redis: lock key -> the handle that holds it and when it expires
    callers,    \* the callers of withLock and runImportWithLock, each where it is
    nextHandle, \* redlock: the next unique lock value
    cnow,       \* Date.now() of the process that owns the cache
    cmax,       \* Cache: maxEntries
    cache,      \* Cache: the Map key -> entry, in insertion order
    accessed,   \* the keys in the cache, in the order of their last get or set
    lastOp,     \* the last operation on the cache and its key
    onow,       \* Date.now() of the process that owns the OAuth2Service
    tokenCache, \* TokenCache: the Map cache key -> CachedToken
    refreshPromises, \* TokenCache: the Map cache key -> the token fetch in flight
    tokenFetches, \* the promises doFetchToken returned, in the order they were made
    clients     \* the callers of getToken and fetch, each where it is

baseVars == <<bIn, inBase, outBase>>
verVars == <<vpc, vargs, vlocals, vresult, vcalls>>
rtVars == <<signer, sent, arrived>>
mwVars == <<mopts, mpc, mreq, reply, mlog>>
parseVars == <<pIn, pOut>>
regVars == <<regLog>>
jwksVars == <<fetchers, defaultResolver, held, lastResolution>>
lockVars == <<rnow, locks, callers, nextHandle>>
cacheVars == <<cnow, cmax, cache, accessed, lastOp>>
oauthVars == <<onow, tokenCache, refreshPromises, tokenFetches, clients>>
\* the state of the services next to the signature code
svcVars == <<regVars, jwksVars, lockVars, cacheVars, oauthVars>>
\* the state of the signature code
sigVars == <<clock, registry, bIn, inBase, outBase, vpc, vargs, vlocals, vresult, vcalls,
             signer, sent, arrived, mopts, mpc, mreq, reply, mlog, pIn, pOut>>
vars == <<clock, registry, bIn, inBase, outBase, vpc, vargs, vlocals, vresult, vcalls,
          signer, sent, arrived, mopts, mpc, mreq, reply, mlog, pIn, pOut, regLog,
          fetchers, defaultResolver, held, lastResolution,
          rnow, locks, callers, nextHandle,
          cnow, cmax, cache, accessed, lastOp,
          onow, tokenCache, refreshPromises, tokenFetches, clients>>

None == <<>>
Some(v) == <<v>>
IsSome(o) == Len(o) = 1
Get(o) == o[1]

---------------------------------------------------------------------------
(* Characters and strings                                                  *)

LowerAlpha == <<"a", "b", "c", "d", "e", "f", "g", "h", "i", "j", "k", "l", "m",
                "n", "o", "p", "q", "r", "s", "t", "u", "v", "w", "x", "y", "z">>
UpperAlpha == <<"A", "B", "C", "D", "E", "F", "G", "H", "I", "J", "K", "L", "M",
                "N", "O", "P", "Q", "R", "S", "T", "U", "V", "W", "X", "Y", "Z">>
Digits == <<"0", "1", "2", "3", "4", "5", "6", "7", "8", "9">>

\* position of character c in the alphabet, 0 when it is not in it
CharIndex(alpha, c) ==
    IF \E i \in 1..Len(alpha) : alpha[i] = c
    THEN CHOOSE i \in 1..Len(alpha) : alpha[i] = c
    ELSE 0

toLowerChar(c) ==
    LET i == CharIndex(UpperAlpha, c) IN IF i > 0 THEN LowerAlpha[i] ELSE c

toUpperChar(c) ==
    LET i == CharIndex(LowerAlpha, c) IN IF i > 0 THEN UpperAlpha[i] ELSE c

\* String.prototype.toLowerCase
toLowerCase(s) == [i \in 1..Len(s) |-> toLowerChar(s[i])]

\* String.prototype.indexOf(c) for a one-character c, 1-based; 0 is "not found"
indexOf(s, c) ==
    IF \E i \in 1..Len(s) : s[i] = c
    THEN CHOOSE i \in 1..Len(s) : s[i] = c /\ \A j \in 1..(i - 1) : s[j] # c
    ELSE 0

\* String.prototype.indexOf(c, from): first position >= from holding c, else 0
indexOfFrom(s, c, from) ==
    IF \E i \in from..Len(s) : s[i] = c
    THEN CHOOSE i \in from..Len(s) : s[i] = c /\ \A j \in from..(i - 1) : s[j] # c
    ELSE 0

\* String.prototype.startsWith
startsWith(s, p) == Len(s) >= Len(p) /\ SubSeq(s, 1, Len(p)) = p

\* String.prototype.split(sep) for a one-character separator
RECURSIVE split(_, _)
split(s, sep) ==
    LET i == indexOf(s, sep) IN
    IF i = 0 THEN <<s>>
    ELSE <<SubSeq(s, 1, i - 1)>> \o split(SubSeq(s, i + 1, Len(s)), sep)

\* Array.prototype.join(sep) for an array of strings
RECURSIVE join(_, _)
join(parts, sep) ==
    IF Len(parts) = 0 THEN <<>>
    ELSE IF Len(parts) = 1 THEN parts[1]
    ELSE parts[1] \o sep \o join(Tail(parts), sep)

\* template-literal rendering of a non-negative integer: `${n}`
RECURSIVE numberToString(_)
numberToString(n) ==
    IF n < 10 THEN <<Digits[n + 1]>>
    ELSE numberToString(n \div 10) \o <<Digits[(n % 10) + 1]>>

\* Array.prototype.includes
includes(arr, x) == \E i \in 1..Len(arr) : arr[i] = x

---------------------------------------------------------------------------
(* JavaScript objects used as string-keyed maps: a sequence of key/value   *)
(* pairs in insertion order, each key at most once.                        *)

\* obj[key], undefined when the key is not an own property
prop(obj, key) ==
    IF \E i \in 1..Len(obj) : obj[i].k = key
    THEN Some((obj[CHOOSE i \in 1..Len(obj) : obj[i].k = key]).v)
    ELSE None

\* obj[key] = value
setProp(obj, key, value) ==
    IF \E i \in 1..Len(obj) : obj[i].k = key
    THEN [i \in 1..Len(obj) |-> IF obj[i].k = key THEN [k |-> key, v |-> value] ELSE obj[i]]
    ELSE Append(obj, [k |-> key, v |-> value])

\* a ?? b
Coalesce(a, b) == IF IsSome(a) THEN a ELSE b

---------------------------------------------------------------------------
(* String literals of the code                                             *)

C_method == <<"@", "m", "e", "t", "h", "o", "d">>
C_target_uri == <<"@", "t", "a", "r", "g", "e", "t", "-", "u", "r", "i">>
C_authority == <<"@", "a", "u", "t", "h", "o", "r", "i", "t", "y">>
C_scheme == <<"@", "s", "c", "h", "e", "m", "e">>
C_path == <<"@", "p", "a", "t", "h">>
C_query == <<"@", "q", "u", "e", "r", "y">>
D_signature_params == <<"@", "s", "i", "g", "n", "a", "t", "u", "r", "e", "-", "p", "a", "r", "a", "m", "s">>
A_rsa_pss_sha512 == <<"r", "s", "a", "-", "p", "s", "s", "-", "s", "h", "a", "5", "1", "2">>
A_rsa_v1_5_sha256 == <<"r", "s", "a", "-", "v", "1", "_", "5", "-", "s", "h", "a", "2", "5", "6">>
L_sig1 == <<"s", "i", "g", "1">>
T_keyid == <<";", "k", "e", "y", "i", "d", "=", "\"">>
T_alg == <<";", "a", "l", "g", "=", "\"">>
T_created == <<";", "c", "r", "e", "a", "t", "e", "d", "=">>
T_expires == <<";", "e", "x", "p", "i", "r", "e", "s", "=">>
T_nonce == <<";", "n", "o", "n", "c", "e", "=", "\"">>
QUOTE == <<"\"">>
NEWLINE == <<"\n">>
COLON_SPACE == <<":", " ">>
COMMA_SPACE == <<",", " ">>
SPACE == <<" ">>

---------------------------------------------------------------------------
(* components.ts: the component extractor (inbound)                        *)
(*                                                                         *)
(* A received request is [method, url, hostname, protocol, headers]; its   *)
(* headers object has lower-case keys and values [arr |-> FALSE, s |-> _]  *)
(* (a string) or [arr |-> TRUE, a |-> _] (an array of strings).            *)

extractDerivedComponent(request, component) ==
    CASE component = C_method -> Some(request.method)
      [] component = C_target_uri ->
            Some(request.protocol \o <<":", "/", "/">> \o request.hostname \o request.url)
      [] component = C_authority -> Some(request.hostname)
      [] component = C_scheme -> Some(request.protocol)
      [] component = C_path ->
            LET queryIndex == indexOf(request.url, "?") IN
            Some(IF queryIndex > 0 THEN SubSeq(request.url, 1, queryIndex - 1) ELSE request.url)
      [] component = C_query ->
            LET queryIndex == indexOf(request.url, "?") IN
            Some(IF queryIndex > 0 THEN SubSeq(request.url, queryIndex, Len(request.url)) ELSE <<"?">>)
      [] OTHER -> None

extractComponent(request, component) ==
    IF startsWith(component, <<"@">>)
    THEN extractDerivedComponent(request, component)
    ELSE LET headerValue == prop(request.headers, toLowerCase(component)) IN
         IF ~IsSome(headerValue) THEN None
         ELSE IF Get(headerValue).arr THEN Some(join(Get(headerValue).a, COMMA_SPACE))
         ELSE Some(Get(headerValue).s)

---------------------------------------------------------------------------
(* signature-base.ts: the signature base builder (inbound)                 *)
(*                                                                         *)
(* A ParsedSignatureInput is [label, components, keyid, alg, created,      *)
(* expires, nonce], the last three optional.                               *)

\* sigInput.components.map((c) => `"${c}"`).join(' ')
quoteList(components) ==
    join([i \in 1..Len(components) |-> QUOTE \o components[i] \o QUOTE], SPACE)

\* mutant: expires written before created
buildSignatureParams_expiresFirst(sigInput) ==
    <<"(">> \o quoteList(sigInput.components) \o <<")">>
    \o T_keyid \o sigInput.keyid \o QUOTE
    \o T_alg \o sigInput.alg \o QUOTE
    \o (IF IsSome(sigInput.expires) THEN T_expires \o numberToString(Get(sigInput.expires)) ELSE <<>>)
    \o (IF IsSome(sigInput.created) THEN T_created \o numberToString(Get(sigInput.created)) ELSE <<>>)
    \o (IF IsSome(sigInput.nonce) THEN T_nonce \o Get(sigInput.nonce) \o QUOTE ELSE <<>>)

buildSignatureParams(sigInput) ==
    <<"(">> \o quoteList(sigInput.components) \o <<")">>
    \o T_keyid \o sigInput.keyid \o QUOTE
    \o T_alg \o sigInput.alg \o QUOTE
    \o (IF IsSome(sigInput.created) THEN T_created \o numberToString(Get(sigInput.created)) ELSE <<>>)
    \o (IF IsSome(sigInput.expires) THEN T_expires \o numberToString(Get(sigInput.expires)) ELSE <<>>)
    \o (IF IsSome(sigInput.nonce) THEN T_nonce \o Get(sigInput.nonce) \o QUOTE ELSE <<>>)

\* the loop of buildSignatureBase over sigInput.components: one line per
\* component whose value is not undefined
RECURSIVE componentLines(_, _)
componentLines(request, components) ==
    IF Len(components) = 0 THEN <<>>
    ELSE LET component == Head(components)
             value == extractComponent(request, component)
         IN (IF IsSome(value)
             THEN <<QUOTE \o component \o QUOTE \o COLON_SPACE \o Get(value)>>
             ELSE <<>>)
            \o componentLines(request, Tail(components))

buildSignatureBase(request, sigInput) ==
    LET lines == componentLines(request, sigInput.components)
        sigParams == buildSignatureParams(sigInput)
    IN join(Append(lines, QUOTE \o D_signature_params \o QUOTE \o COLON_SPACE \o sigParams), NEWLINE)

---------------------------------------------------------------------------
(* sign.ts: the signature base builder of the Signer (outbound)            *)
(*                                                                         *)
(* A request description is [method, url, headers, body]: url a string,    *)
(* headers an object of strings, body optional.                            *)

\* new URL(url) for an absolute http(s) URL without userinfo or fragment:
\* scheme ":" "//" host [path] ["?" query]; an empty path reads "/" and a
\* query of "?" alone reads "".
URL(url) ==
    LET colon == indexOf(url, ":")
        rest == SubSeq(url, colon + 3, Len(url))
        slash == indexOf(rest, "/")
        quest == indexOf(rest, "?")
        hostEnd == IF slash > 0 /\ (quest = 0 \/ slash < quest) THEN slash - 1
                   ELSE IF quest > 0 THEN quest - 1
                   ELSE Len(rest)
        pathEnd == IF quest > 0 THEN quest - 1 ELSE Len(rest)
        path == SubSeq(rest, hostEnd + 1, pathEnd)
        query == IF quest > 0 THEN SubSeq(rest, quest, Len(rest)) ELSE <<>>
    IN [protocol |-> SubSeq(url, 1, colon),
        host |-> toLowerCase(SubSeq(rest, 1, hostEnd)),
        pathname |-> IF path = <<>> THEN <<"/">> ELSE path,
        search |-> IF query = <<"?">> THEN <<>> ELSE query]

\* header.split('-').map(capitalise first, lower-case rest).join('-')
capitalizePart(part) ==
    IF Len(part) = 0 THEN <<>>
    ELSE <<toUpperChar(part[1])>> \o toLowerCase(SubSeq(part, 2, Len(part)))

capitalizeHeader(header) ==
    LET parts == split(header, "-") IN
    join([i \in 1..Len(parts) |-> capitalizePart(parts[i])], <<"-">>)

\* the default branch of the switch: the header lookup of the outbound builder
outgoingHeaderValue(headers, component) ==
    Coalesce(prop(headers, component),
             Coalesce(prop(headers, toLowerCase(component)),
                      prop(headers, capitalizeHeader(component))))

\* url.protocol.replace(':', '')
replaceColon(s) ==
    LET i == indexOf(s, ":") IN
    IF i = 0 THEN s ELSE SubSeq(s, 1, i - 1) \o SubSeq(s, i + 1, Len(s))

outgoingComponentValue(request, headers, component) ==
    LET url == URL(request.url) IN
    CASE component = C_method -> Some(request.method)
      [] component = C_target_uri -> Some(request.url)
      [] component = C_authority -> Some(url.host)
      [] component = C_scheme -> Some(replaceColon(url.protocol))
      [] component = C_path -> Some(url.pathname)
      [] component = C_query -> Some(IF url.search = <<>> THEN <<"?">> ELSE url.search)
      [] OTHER -> outgoingHeaderValue(headers, component)

RECURSIVE outgoingLines(_, _, _)
outgoingLines(request, headers, components) ==
    IF Len(components) = 0 THEN <<>>
    ELSE LET component == Head(components)
             value == outgoingComponentValue(request, headers, component)
         IN (IF IsSome(value)
             THEN <<QUOTE \o component \o QUOTE \o COLON_SPACE \o Get(value)>>
             ELSE <<>>)
            \o outgoingLines(request, headers, Tail(components))

buildOutgoingSignatureBase(request, headers, components, keyId, algorithm, created) ==
    LET lines == outgoingLines(request, headers, components)
        componentsList == quoteList(components)
    IN join(Append(lines,
                   QUOTE \o D_signature_params \o QUOTE \o COLON_SPACE
                   \o <<"(">> \o componentsList \o <<")">>
                   \o T_keyid \o keyId \o QUOTE
                   \o T_alg \o algorithm \o QUOTE
                   \o T_created \o numberToString(created)),
            NEWLINE)

---------------------------------------------------------------------------
(* algorithms/index.ts: the registry, a Map from name to algorithm.  An    *)
(* algorithm is [name, impl]: impl "builtin" is one of the two RSA         *)
(* algorithms of the repository, "mock" a registered test double whose     *)
(* verify returns undefined, "throws" a registered algorithm whose verify  *)
(* throws.                                                                 *)

\* a registration that keeps the entry a name already has
registerAlgorithm_keepFirst(reg, algo) ==
    IF IsSome(prop(reg, algo.name)) THEN reg ELSE setProp(reg, algo.name, algo)

registerAlgorithm(reg, algo) == setProp(reg, algo.name, algo)

getAlgorithm(reg, name) == prop(reg, name)

\* Array.from(registry.keys()): the names in the order of their first
\* registration
getRegisteredAlgorithms(reg) == [i \in 1..Len(reg) |-> reg[i].k]

\* the registrations made when algorithms/rsa-pss-sha512.ts and
\* algorithms/rsa-v1_5-sha256.ts are imported
BuiltinRegistry ==
    registerAlgorithm(
        registerAlgorithm(<<>>, [name |-> A_rsa_pss_sha512, impl |-> "builtin"]),
        [name |-> A_rsa_v1_5_sha256, impl |-> "builtin"])

(* Bytes are numbers 0..255.  Keys are named pairs: the private key "A"     *)
(* signs what the public key "A" verifies.  A signature is the bytes that  *)
(* name the algorithm, the key and the signed data, so that it verifies    *)
(* for exactly that algorithm, key and data.                               *)

Ascii ==
    <<" ", "!", "\"", "#", "$", "%", "&", "'", "(", ")", "*", "+", ",", "-",
      ".", "/", "0", "1", "2", "3", "4", "5", "6", "7", "8", "9", ":", ";",
      "<", "=", ">", "?", "@", "A", "B", "C", "D", "E", "F", "G", "H", "I",
      "J", "K", "L", "M", "N", "O", "P", "Q", "R", "S", "T", "U", "V", "W",
      "X", "Y", "Z", "[", "\\", "]", "^", "_", "grave", "a", "b", "c", "d", "e",
      "f", "g", "h", "i", "j", "k", "l", "m", "n", "o", "p", "q", "r", "s",
      "t", "u", "v", "w", "x", "y", "z", "{", "|", "}", "~">>

\* String.prototype.charCodeAt for a one-character string of the ASCII range
\* (the table holds the codes 32..126 in order, the grave accent by name)
AsciiCode ==
    [c \in {Ascii[i] : i \in 1..Len(Ascii)} \cup {"\n"} |->
        IF c = "\n" THEN 10 ELSE 31 + CharIndex(Ascii, c)]

charCodeAt(c) == AsciiCode[c]

\* new TextEncoder().encode(s) for an ASCII string
encode(s) == [i \in 1..Len(s) |-> charCodeAt(s[i])]

\* algo.sign(privateKey, data) of the two RSA algorithms
cryptoSign(algName, privateKey, data) ==
    encode(algName) \o <<0, charCodeAt(privateKey), 0>> \o data

\* crypto.createVerify(...).verify(publicKey, signature) under algorithm algName
cryptoVerify(algName, publicKey, signature, data) ==
    signature = cryptoSign(algName, publicKey, data)

\* algo.verify(publicKey, signature, data): "true", "false" or "throws".
\* The two RSA algorithms catch every error of the crypto call and return false.
algoVerify(algo, publicKey, signature, data) ==
    CASE algo.impl = "builtin" ->
            IF cryptoVerify(algo.name, publicKey, signature, data) THEN "true" ELSE "false"
      [] algo.impl = "mock" -> "false"
      [] algo.impl = "throws" -> "throws"

---------------------------------------------------------------------------
(* base64: btoa / atob as sign.ts and parse.ts use them                    *)

Base64Alphabet ==
    <<"A", "B", "C", "D", "E", "F", "G", "H", "I", "J", "K", "L", "M", "N",
      "O", "P", "Q", "R", "S", "T", "U", "V", "W", "X", "Y", "Z", "a", "b",
      "c", "d", "e", "f", "g", "h", "i", "j", "k", "l", "m", "n", "o", "p",
      "q", "r", "s", "t", "u", "v", "w", "x", "y", "z", "0", "1", "2", "3",
      "4", "5", "6", "7", "8", "9", "+", "/">>

\* the value 0..63 of a character of the base64 alphabet
Base64Value ==
    [c \in {Base64Alphabet[i] : i \in 1..Len(Base64Alphabet)} |->
        CharIndex(Base64Alphabet, c) - 1]

Pow2(n) == IF n = 0 THEN 1 ELSE IF n = 2 THEN 4 ELSE 16

\* btoa(String.fromCharCode(...bytes)): every three bytes give four
\* characters, the last group padded with "="
uint8ArrayToBase64(bytes) ==
    LET n == Len(bytes)
        byteAt(i) == IF i <= n THEN bytes[i] ELSE 0
    IN [j \in 1..(4 * ((n + 2) \div 3)) |->
          LET g == (j - 1) \div 4
              k == (j - 1) % 4
              triple == byteAt(3 * g + 1) * 65536 + byteAt(3 * g + 2) * 256 + byteAt(3 * g + 3)
              sextet == CASE k = 0 -> triple \div 262144
                          [] k = 1 -> (triple \div 4096) % 64
                          [] k = 2 -> (triple \div 64) % 64
                          [] k = 3 -> triple % 64
          IN IF 3 * g + k > n THEN "=" ELSE Base64Alphabet[sextet + 1]]

\* atob(base64) for a string without white space: up to two "=" are taken
\* off the end of a string whose length is a multiple of four; a length of
\* 4n+1 or a character outside the alphabet throws (None).  Bits left over
\* after the last whole byte are dropped.
atob(base64) ==
    LET len == Len(base64)
        pad == IF len % 4 = 0 /\ len > 0 /\ base64[len] = "="
               THEN (IF base64[len - 1] = "=" THEN 2 ELSE 1)
               ELSE 0
        data == SubSeq(base64, 1, len - pad)
        m == Len(data)
    IN IF m % 4 = 1 \/ \E i \in 1..m : data[i] \notin DOMAIN Base64Value
       THEN None
       ELSE Some([i \in 1..((m * 6) \div 8) |->
                    LET bit == (i - 1) * 8
                        s == bit \div 6 + 1
                        o == bit % 6
                    IN ((Base64Value[data[s]] * 64 + Base64Value[data[s + 1]])
                            \div Pow2(4 - o)) % 256])

\* base64ToUint8Array: the bytes are the character codes of atob's result
base64ToUint8Array(base64) == atob(base64)

---------------------------------------------------------------------------
(* parse.ts: the parser of the Signature-Input and Signature headers       *)

AlphaChars == {LowerAlpha[i] : i \in 1..Len(LowerAlpha)} \cup {UpperAlpha[i] : i \in 1..Len(UpperAlpha)}
DigitChars == {Digits[i] : i \in 1..Len(Digits)}
\* [a-zA-Z0-9_-]
LabelChars == AlphaChars \cup DigitChars \cup {"_", "-"}
\* [A-Za-z0-9+/=]
Base64Chars == DOMAIN Base64Value \cup {"="}
\* what String.prototype.trim removes
WhiteSpace == {" ", "\t", "\n", "\r"}

\* the last position of the longest run of characters of set that starts at
\* position i (i - 1 when the run is empty): a greedy character class
runEnd(s, i, set) ==
    IF \A k \in i..Len(s) : s[k] \in set THEN Len(s)
    ELSE (CHOOSE k \in i..Len(s) : s[k] \notin set /\ \A j \in i..(k - 1) : s[j] \in set) - 1

\* the first position of the longest run of characters of set that ends at
\* position i and starts at from or later (i + 1 when the run is empty)
runStart(s, i, set, from) ==
    IF \A k \in from..i : s[k] \in set THEN from
    ELSE (CHOOSE k \in from..i : s[k] \notin set /\ \A j \in (k + 1)..i : s[j] \in set) + 1

\* String.prototype.indexOf(pattern, from), 1-based; 0 is "not found"
findFrom(s, pattern, from) ==
    LET hit(p) == SubSeq(s, p, p + Len(pattern) - 1) = pattern
        places == {p \in from..(Len(s) - Len(pattern) + 1) : hit(p)}
    IN IF places = {} THEN 0
       ELSE CHOOSE p \in places : \A q \in places : p <= q

\* String.prototype.trim
trim(s) ==
    IF \A i \in 1..Len(s) : s[i] \in WhiteSpace THEN <<>>
    ELSE LET first == CHOOSE i \in 1..Len(s) :
                          s[i] \notin WhiteSpace /\ \A j \in 1..(i - 1) : s[j] \in WhiteSpace
             last == CHOOSE i \in 1..Len(s) :
                         s[i] \notin WhiteSpace /\ \A j \in (i + 1)..Len(s) : s[j] \in WhiteSpace
         IN SubSeq(s, first, last)

\* parseInt(digits, 10) for a string of digits
RECURSIVE parseInt(_)
parseInt(digits) ==
    IF Len(digits) = 0 THEN 0
    ELSE parseInt(SubSeq(digits, 1, Len(digits) - 1)) * 10
         + (CharIndex(Digits, digits[Len(digits)]) - 1)

\* splitSignatures: the state of its loop before the character at position i.
\* A double quote not preceded by a backslash toggles inQuotes; outside
\* quotes "(" and ")" count inParens up and down.
quoteToggles(header, i) == header[i] = "\"" /\ (i = 1 \/ header[i - 1] # "\\")

inQuotesAt(header, i) ==
    Cardinality({j \in 1..(i - 1) : quoteToggles(header, j)}) % 2 = 1

inParensAt(header, i) ==
    Cardinality({j \in 1..(i - 1) :
        ~quoteToggles(header, j) /\ header[j] = "(" /\ ~inQuotesAt(header, j)})
    - Cardinality({j \in 1..(i - 1) :
        ~quoteToggles(header, j) /\ header[j] = ")" /\ ~inQuotesAt(header, j)})

\* the commas at which the loop pushes the current segment
splitPlaces(header) ==
    {i \in 1..Len(header) :
        header[i] = "," /\ ~inQuotesAt(header, i) /\ inParensAt(header, i) = 0}

\* every comma of splitPlaces ends a segment (an empty one too); what follows
\* the last comma is a segment when it is not empty
splitSignatures(header) ==
    LET places == splitPlaces(header)
        n == Cardinality(places)
        place(k) == IF k = 0 THEN 0
                    ELSE CHOOSE p \in places : Cardinality({q \in places : q < p}) = k - 1
        last == SubSeq(header, place(n) + 1, Len(header))
        pushed == [k \in 1..n |-> SubSeq(header, place(k - 1) + 1, place(k) - 1)]
    IN IF last # <<>> THEN Append(pushed, last) ELSE pushed

\* componentsStr.match(/"([^"]+)"/g)?.map((c) => c.slice(1, -1)) ?? [],
\* scanning from position i
RECURSIVE quotedItems(_, _)
quotedItems(s, i) ==
    LET open == indexOfFrom(s, "\"", i)
        close == IF open = 0 THEN 0 ELSE indexOfFrom(s, "\"", open + 1)
    IN IF open = 0 \/ close = 0 THEN <<>>
       ELSE IF close = open + 1 THEN quotedItems(s, open + 1)
       ELSE <<SubSeq(s, open + 1, close - 1)>> \o quotedItems(s, close + 1)

\* params.match(/<tag>([^"]+)"/) for a tag that ends with the opening quote:
\* the capture of the first match at or after position from, else None
RECURSIVE matchQuoted(_, _, _)
matchQuoted(params, tag, from) ==
    LET p == findFrom(params, tag, from)
        start == p + Len(tag)
        close == indexOfFrom(params, "\"", start)
    IN IF p = 0 THEN None
       ELSE IF close > start THEN Some(SubSeq(params, start, close - 1))
       ELSE matchQuoted(params, tag, p + 1)

\* params.match(/<tag>(\d+)/): the capture of the first match, else None
RECURSIVE matchDigits(_, _, _)
matchDigits(params, tag, from) ==
    LET p == findFrom(params, tag, from)
        start == p + Len(tag)
        end == runEnd(params, start, DigitChars)
    IN IF p = 0 THEN None
       ELSE IF end >= start THEN Some(SubSeq(params, start, end))
       ELSE matchDigits(params, tag, p + 1)

\* null is None, a ParsedSignatureInput p is Some(p)
parseSingleSignatureInput(input) ==
    LET labelEnd == runEnd(input, 2, LabelChars)
        close == indexOfFrom(input, ")", labelEnd + 3)
        labelMatch == /\ Len(input) >= 1
                      /\ input[1] \in AlphaChars
                      /\ Len(input) >= labelEnd + 2
                      /\ input[labelEnd + 1] = "="
                      /\ input[labelEnd + 2] = "("
                      /\ close > 0
    IN IF ~labelMatch THEN None
       ELSE LET label == SubSeq(input, 1, labelEnd)
                componentsStr == SubSeq(input, labelEnd + 3, close - 1)
                components == quotedItems(componentsStr, 1)
                params == SubSeq(input, close + 1, Len(input))
                keyidMatch == matchQuoted(params, T_keyid, 1)
                algMatch == matchQuoted(params, T_alg, 1)
                createdMatch == matchDigits(params, T_created, 1)
                expiresMatch == matchDigits(params, T_expires, 1)
                nonceMatch == matchQuoted(params, T_nonce, 1)
            IN IF ~IsSome(keyidMatch) \/ ~IsSome(algMatch) THEN None
               ELSE Some([label |-> label,
                          components |-> components,
                          keyid |-> Get(keyidMatch),
                          alg |-> Get(algMatch),
                          created |-> IF IsSome(createdMatch)
                                      THEN Some(parseInt(Get(createdMatch))) ELSE None,
                          expires |-> IF IsSome(expiresMatch)
                                      THEN Some(parseInt(Get(expiresMatch))) ELSE None,
                          nonce |-> nonceMatch])

\* the loop of parseSignatureInput over the segments
RECURSIVE parseSegments(_)
parseSegments(signatures) ==
    IF Len(signatures) = 0 THEN <<>>
    ELSE LET parsed == parseSingleSignatureInput(trim(Head(signatures)))
         IN (IF IsSome(parsed) THEN <<Get(parsed)>> ELSE <<>>)
            \o parseSegments(Tail(signatures))

parseSignatureInput(header) == parseSegments(splitSignatures(header))

\* /([a-zA-Z][a-zA-Z0-9_-]*)=:([A-Za-z0-9+\/=]+):/ around the "=:" at position
\* eq, searching from position from: None, or the label, the base64 text
\* and the position of the closing colon.  Neither "=" nor ":" is a label
\* character and ":" is no base64 character, so the label is the run of label
\* characters that ends before eq, taken from its first letter, and the text
\* is the whole run of base64 characters after "=:".
signatureMatchAt(header, eq, from) ==
    LET labelStart == runStart(header, eq - 1, LabelChars, from)
        letters == {p \in labelStart..(eq - 1) : header[p] \in AlphaChars}
        textEnd == runEnd(header, eq + 2, Base64Chars)
    IN IF /\ letters # {}
          /\ textEnd >= eq + 2
          /\ Len(header) >= textEnd + 1
          /\ header[textEnd + 1] = ":"
       THEN Some([label |-> SubSeq(header, CHOOSE p \in letters : \A q \in letters : p <= q,
                                   eq - 1),
                  text |-> SubSeq(header, eq + 2, textEnd),
                  end |-> textEnd + 1])
       ELSE None

\* the while loop of parseSignature: regex.exec from position from on; the
\* leftmost match is the one around the first "=:" that has one
RECURSIVE parseSignatureFrom(_, _)
parseSignatureFrom(header, from) ==
    LET places == {eq \in from..(Len(header) - 1) :
                      /\ header[eq] = "=" /\ header[eq + 1] = ":"
                      /\ IsSome(signatureMatchAt(header, eq, from))}
    IN IF places = {} THEN <<>>
       ELSE LET eq == CHOOSE q \in places : \A r \in places : q <= r
                match == Get(signatureMatchAt(header, eq, from))
                value == base64ToUint8Array(match.text)
            IN (IF IsSome(value)
                THEN <<[label |-> match.label, value |-> Get(value)]>>
                ELSE <<>>)
               \o parseSignatureFrom(header, match.end + 1)

parseSignature(header) == parseSignatureFrom(header, 1)

---------------------------------------------------------------------------
(* sign.ts: createSigner and Signer.sign                                   *)

C_content_digest == <<"c", "o", "n", "t", "e", "n", "t", "-", "d", "i", "g", "e", "s", "t">>
H_Content_Digest == <<"C", "o", "n", "t", "e", "n", "t", "-", "D", "i", "g", "e", "s", "t">>
H_Signature_Input == <<"S", "i", "g", "n", "a", "t", "u", "r", "e", "-", "I", "n", "p", "u", "t">>
H_Signature == <<"S", "i", "g", "n", "a", "t", "u", "r", "e">>
T_sha_256 == <<"s", "h", "a", "-", "2", "5", "6", "=", ":">>

\* crypto.createHash('sha256').update(body).digest(): a digest without
\* collisions, the bytes that name the hashed text
sha256(body) == <<0>> \o encode(body)

computeContentDigest(body) ==
    T_sha_256 \o uint8ArrayToBase64(sha256(body)) \o <<":">>

\* createSigner(options): None when it throws for an algorithm that is not
\* registered, else the Signer with what it closes over.  A PEM private key
\* is imported and is then the same key.
createSigner(reg, options) ==
    LET algo == getAlgorithm(reg, options.algorithm) IN
    IF ~IsSome(algo) THEN None
    ELSE Some([keyId |-> options.keyId, key |-> options.privateKey,
               algorithm |-> options.algorithm, components |-> options.components,
               algo |-> Get(algo)])

\* algo.sign(key, data) of a registered RSA algorithm
algoSign(algo, key, data) == cryptoSign(algo.name, key, data)

\* Signer.sign up to the digest: the copy of the caller's headers, with
\* Content-Digest set when a body is given and content-digest is bound
signResult(self, request) ==
    LET digested == /\ IsSome(request.body) /\ Get(request.body) # <<>>
                    /\ includes(self.components, C_content_digest)
    IN IF digested
       THEN setProp(request.headers, H_Content_Digest,
                    computeContentDigest(Get(request.body)))
       ELSE request.headers

\* Signer.sign: the signature base it builds and signs
signSignatureBase(self, request, created) ==
    buildOutgoingSignatureBase(request, signResult(self, request), self.components,
                               self.keyId, self.algorithm, created)

\* the description the caller passed, as it is after the call: sign copies
\* the header map before it writes, and assigns to no field of the request
signRequestAfter(self, request) == request

\* a sign that returns only the headers it made
sign_addedOnly(self, request, now) ==
    LET base64Sig == uint8ArrayToBase64(
                         algoSign(self.algo, self.key,
                                  encode(signSignatureBase(self, request, now))))
    IN <<[k |-> H_Signature_Input,
          v |-> L_sig1 \o <<"=", "(">> \o quoteList(self.components) \o <<")">>
                \o T_keyid \o self.keyId \o QUOTE \o T_alg \o self.algorithm \o QUOTE
                \o T_created \o numberToString(now)],
         [k |-> H_Signature, v |-> L_sig1 \o <<"=", ":">> \o base64Sig \o <<":">>]>>

\* the body of Signer.sign: the headers it returns.  now is its reading of
\* the clock.
sign(self, request, now) ==
    LET created == now
        result == signResult(self, request)
        signatureBase == signSignatureBase(self, request, created)
        signatureBytes == algoSign(self.algo, self.key, encode(signatureBase))
        base64Sig == uint8ArrayToBase64(signatureBytes)
        componentsList == quoteList(self.components)
        signatureInput == L_sig1 \o <<"=", "(">> \o componentsList \o <<")">>
                          \o T_keyid \o self.keyId \o QUOTE
                          \o T_alg \o self.algorithm \o QUOTE
                          \o T_created \o numberToString(created)
    IN setProp(setProp(result, H_Signature_Input, signatureInput),
               H_Signature, L_sig1 \o <<"=", ":">> \o base64Sig \o <<":">>)

---------------------------------------------------------------------------
(* verify.ts: verifySignature                                              *)

DEFAULT_MAX_AGE == 300
FUTURE_SKEW == 60

\* a VerificationResult with valid: false
failure(code) ==
    [valid |-> FALSE, keyId |-> None, algorithm |-> None, components |-> None,
     created |-> None, error |-> Some(code)]

\* the VerificationResult of the last return statement
success(sigInput) ==
    [valid |-> TRUE, keyId |-> Some(sigInput.keyid), algorithm |-> Some(sigInput.alg),
     components |-> Some(sigInput.components), created |-> sigInput.created,
     error |-> None]

\* how a call ends: it returns a VerificationResult or an exception leaves it
returned(result) == [threw |-> FALSE, value |-> result]
thrown == [threw |-> TRUE, value |-> None]

\* mutant: the explicit expiry is checked before the allow-list
checksBeforeResolve_expiryFirst(reg, sigInput, options, now1, now2) ==
    LET maxAge == IF IsSome(options.maxAge) THEN Get(options.maxAge) ELSE DEFAULT_MAX_AGE
        algo == getAlgorithm(reg, sigInput.alg)
    IN IF ~IsSome(algo) THEN Some("unsupported_algorithm")
       ELSE IF IsSome(sigInput.expires) /\ now2 > Get(sigInput.expires)
            THEN Some("signature_expired")
       ELSE IF IsSome(options.algorithms) /\ ~includes(Get(options.algorithms), sigInput.alg)
            THEN Some("algorithm_not_allowed")
       ELSE IF IsSome(sigInput.created) /\ now1 - Get(sigInput.created) > maxAge
            THEN Some("signature_expired")
       ELSE IF IsSome(sigInput.created) /\ now1 - Get(sigInput.created) < -FUTURE_SKEW
            THEN Some("signature_future")
       ELSE None

\* mutant: a signature of exactly maxAge seconds is already expired
checksBeforeResolve_ageInclusive(reg, sigInput, options, now1, now2) ==
    LET maxAge == IF IsSome(options.maxAge) THEN Get(options.maxAge) ELSE DEFAULT_MAX_AGE
        algo == getAlgorithm(reg, sigInput.alg)
    IN IF ~IsSome(algo) THEN Some("unsupported_algorithm")
       ELSE IF IsSome(options.algorithms) /\ ~includes(Get(options.algorithms), sigInput.alg)
            THEN Some("algorithm_not_allowed")
       ELSE IF IsSome(sigInput.created) /\ now1 - Get(sigInput.created) >= maxAge
            THEN Some("signature_expired")
       ELSE IF IsSome(sigInput.created) /\ now1 - Get(sigInput.created) < -FUTURE_SKEW
            THEN Some("signature_future")
       ELSE IF IsSome(sigInput.expires) /\ now2 > Get(sigInput.expires)
            THEN Some("signature_expired")
       ELSE None

\* mutant: expires is looked at only when created is absent
checksBeforeResolve_expiryOnlyWithoutCreated(reg, sigInput, options, now1, now2) ==
    LET maxAge == IF IsSome(options.maxAge) THEN Get(options.maxAge) ELSE DEFAULT_MAX_AGE
        algo == getAlgorithm(reg, sigInput.alg)
    IN IF ~IsSome(algo) THEN Some("unsupported_algorithm")
       ELSE IF IsSome(options.algorithms) /\ ~includes(Get(options.algorithms), sigInput.alg)
            THEN Some("algorithm_not_allowed")
       ELSE IF IsSome(sigInput.created) /\ now1 - Get(sigInput.created) > maxAge
            THEN Some("signature_expired")
       ELSE IF IsSome(sigInput.created) /\ now1 - Get(sigInput.created) < -FUTURE_SKEW
            THEN Some("signature_future")
       ELSE IF ~IsSome(sigInput.created) /\ IsSome(sigInput.expires) /\ now2 > Get(sigInput.expires)
            THEN Some("signature_expired")
       ELSE None

\* mutant: the allow-list is checked before the registry
checksBeforeResolve_allowFirst(reg, sigInput, options, now1, now2) ==
    LET maxAge == IF IsSome(options.maxAge) THEN Get(options.maxAge) ELSE DEFAULT_MAX_AGE
        algo == getAlgorithm(reg, sigInput.alg)
    IN IF IsSome(options.algorithms) /\ ~includes(Get(options.algorithms), sigInput.alg)
            THEN Some("algorithm_not_allowed")
       ELSE IF ~IsSome(algo) THEN Some("unsupported_algorithm")
       ELSE IF IsSome(sigInput.created) /\ now1 - Get(sigInput.created) > maxAge
            THEN Some("signature_expired")
       ELSE IF IsSome(sigInput.created) /\ now1 - Get(sigInput.created) < -FUTURE_SKEW
            THEN Some("signature_future")
       ELSE IF IsSome(sigInput.expires) /\ now2 > Get(sigInput.expires)
            THEN Some("signature_expired")
       ELSE None

\* the checks made before the key is resolved, with the two readings of the
\* clock; the error of the first one that fails, or None
checksBeforeResolve(reg, sigInput, options, now1, now2) ==
    LET maxAge == IF IsSome(options.maxAge) THEN Get(options.maxAge) ELSE DEFAULT_MAX_AGE
        algo == getAlgorithm(reg, sigInput.alg)
    IN IF ~IsSome(algo) THEN Some("unsupported_algorithm")
       ELSE IF IsSome(options.algorithms) /\ ~includes(Get(options.algorithms), sigInput.alg)
            THEN Some("algorithm_not_allowed")
       ELSE IF IsSome(sigInput.created) /\ now1 - Get(sigInput.created) > maxAge
            THEN Some("signature_expired")
       ELSE IF IsSome(sigInput.created) /\ now1 - Get(sigInput.created) < -FUTURE_SKEW
            THEN Some("signature_future")
       ELSE IF IsSome(sigInput.expires) /\ now2 > Get(sigInput.expires)
            THEN Some("signature_expired")
       ELSE None

\* mutant: a failed resolution is reported as a failure of the verification
onResolveRejected_generic == returned(failure("verification_failed"))

\* the catch around keyResolver.resolve
onResolveRejected == returned(failure("key_not_found"))

\* mutant: algo.verify is awaited outside the try block
onVerifySettled_uncaught(outcome, sigInput) ==
    CASE outcome = "true" -> returned(success(sigInput))
      [] outcome = "false" -> returned(failure("invalid_signature"))
      [] outcome = "throws" -> thrown

\* mutant: the boolean that algo.verify resolves to is not looked at
onVerifySettled_resultIgnored(outcome, sigInput) ==
    CASE outcome = "true" -> returned(success(sigInput))
      [] outcome = "false" -> returned(success(sigInput))
      [] outcome = "throws" -> returned(failure("verification_failed"))

\* the try/catch around algo.verify and the final return
onVerifySettled(outcome, sigInput) ==
    CASE outcome = "true" -> returned(success(sigInput))
      [] outcome = "false" -> returned(failure("invalid_signature"))
      [] outcome = "throws" -> returned(failure("verification_failed"))

\* verifySignature from its call to the first await: the checks, then the
\* call of keyResolver.resolve.  now2 is the second reading of the clock.
VerifyEnter(args, now2) ==
    /\ vpc = "idle"
    /\ vargs' = Some(args)
    /\ LET err == checksBeforeResolve(registry, args.sigInput, args.options, clock, now2) IN
       IF IsSome(err)
       THEN /\ vpc' = "returned"
            /\ vresult' = Some(returned(failure(Get(err))))
            /\ vcalls' = <<>>
            /\ vlocals' = Some([algo |-> getAlgorithm(registry, args.sigInput.alg),
                                now1 |-> clock, now2 |-> now2,
                                publicKey |-> None, data |-> None])
       ELSE /\ vpc' = "resolving"
            /\ vresult' = None
            /\ vcalls' = <<"resolve">>
            /\ vlocals' = Some([algo |-> getAlgorithm(registry, args.sigInput.alg),
                                now1 |-> clock, now2 |-> now2,
                                publicKey |-> None, data |-> None])

\* keyResolver.resolve settles: a rejection is caught, a key is kept and the
\* signature base is built and handed to algo.verify
ResolveSettles ==
    /\ vpc = "resolving"
    /\ LET args == Get(vargs) IN
       IF args.keyResolver.kind = "rejects"
       THEN /\ vpc' = "returned"
            /\ vresult' = Some(onResolveRejected)
            /\ UNCHANGED <<vlocals, vcalls>>
       ELSE /\ vpc' = "verifying"
            /\ vlocals' = Some([Get(vlocals) EXCEPT
                                  !.publicKey = Some(args.keyResolver.key),
                                  !.data = Some(encode(buildSignatureBase(args.request, args.sigInput)))])
            /\ vcalls' = Append(vcalls, "verify")
            /\ UNCHANGED vresult
    /\ UNCHANGED <<clock, registry, baseVars, vargs, rtVars, mwVars, parseVars, svcVars>>

\* algo.verify settles
VerifySettles ==
    /\ vpc = "verifying"
    /\ LET args == Get(vargs)
           loc == Get(vlocals)
           outcome == algoVerify(Get(loc.algo), Get(loc.publicKey), args.signature.value, Get(loc.data))
       IN vresult' = Some(onVerifySettled(outcome, args.sigInput))
    /\ vpc' = "returned"
    /\ UNCHANGED <<clock, registry, baseVars, vargs, vlocals, vcalls, rtVars, mwVars, parseVars, svcVars>>

\* the caller takes the result
VerifyReturn ==
    /\ vpc = "returned"
    /\ vpc' = "idle"
    /\ vargs' = None /\ vlocals' = None /\ vresult' = None /\ vcalls' = <<>>
    /\ UNCHANGED <<clock, registry, baseVars, rtVars, mwVars, parseVars, svcVars>>

---------------------------------------------------------------------------
(* The request a server receives for a request description: the method as  *)
(* sent, the URL taken apart at its scheme and at the end of its authority *)
(* (so that protocol://hostname + url reads the description's URL again;   *)
(* an empty request target is sent as "/"), and the headers under          *)
(* lower-case names (two spellings of one name arrive as one header, their *)
(* values joined by ", ").                                                 *)

RECURSIVE receiveHeaders(_, _)
receiveHeaders(headers, acc) ==
    IF Len(headers) = 0 THEN acc
    ELSE LET name == toLowerCase(Head(headers).k)
             old == prop(acc, name)
             value == IF IsSome(old) THEN Get(old).s \o COMMA_SPACE \o Head(headers).v
                      ELSE Head(headers).v
         IN receiveHeaders(Tail(headers), setProp(acc, name, [arr |-> FALSE, s |-> value]))

Receive(method, url, headers) ==
    LET colon == indexOf(url, ":")
        rest == SubSeq(url, colon + 3, Len(url))
        slash == indexOf(rest, "/")
        quest == indexOf(rest, "?")
        hostEnd == IF slash > 0 /\ (quest = 0 \/ slash < quest) THEN slash - 1
                   ELSE IF quest > 0 THEN quest - 1
                   ELSE Len(rest)
        target == SubSeq(rest, hostEnd + 1, Len(rest))
    IN [method |-> method,
        protocol |-> SubSeq(url, 1, colon - 1),
        hostname |-> SubSeq(rest, 1, hostEnd),
        url |-> IF target = <<>> THEN <<"/">> ELSE target,
        headers |-> receiveHeaders(headers, <<>>)]

---------------------------------------------------------------------------
(* Values the runs are drawn from                                          *)

C_status == <<"@", "s", "t", "a", "t", "u", "s">>
C_x_id == <<"x", "-", "i", "d">>
C_X_Id == <<"X", "-", "I", "d">>
C_X_ID == <<"X", "-", "I", "D">>
K_k1 == <<"k", "1">>
M_GET == <<"G", "E", "T">>
M_POST == <<"P", "O", "S", "T">>
V_7 == <<"7">>
V_8 == <<"8">>
N_n1 == <<"n", "1">>
URL_p == <<"h", "t", "t", "p", "s", ":", "/", "/", "a", ".", "i", "o", "/", "p">>
URL_p_q == <<"h", "t", "t", "p", "s", ":", "/", "/", "a", ".", "i", "o", "/", "p", "?", "q", "=", "1">>
URL_http_q == <<"h", "t", "t", "p", ":", "/", "/", "b", ".", "i", "o", "/", "q", "?">>

Urls == {URL_p, URL_p_q, URL_http_q}
\* header maps of a caller: none, or the header x-id under one spelling
HeaderMaps ==
    {<<>>} \cup {<<[k |-> name, v |-> V_7]>> : name \in {C_x_id, C_X_Id, C_X_ID}}
ComponentIds ==
    {C_method, C_target_uri, C_authority, C_scheme, C_path, C_query, C_status, C_x_id, C_X_Id}
\* every list of at most MaxComponents identifiers, and one longer list with
\* a repeated and an unresolvable identifier
MaxComponents == 2
ComponentLists ==
    UNION {[1..n -> ComponentIds] : n \in 0..MaxComponents}
    \cup {<<C_x_id, C_status, C_method, C_x_id>>}

A_test_algo == <<"t", "e", "s", "t", "-", "a", "l", "g", "o">>

ClockStart == 1000
ExpiresSample == ClockStart + DEFAULT_MAX_AGE

---------------------------------------------------------------------------
(* The services next to the signature code, before any call of them, and   *)
(* the log of registrations, which only SpecRegistry keeps.                *)

SvcIdle ==
    /\ regLog = <<>>
    /\ fetchers = <<>> /\ defaultResolver = None /\ held = {} /\ lastResolution = None
    /\ rnow = 0 /\ locks = <<>> /\ callers = <<>> /\ nextHandle = 1
    /\ cnow = 0 /\ cmax = 0 /\ cache = <<>> /\ accessed = <<>> /\ lastOp = None
    /\ onow = 0 /\ tokenCache = <<>> /\ refreshPromises = <<>> /\ tokenFetches = <<>> /\ clients = <<>>

---------------------------------------------------------------------------
(* SpecBase: the two builders applied to drawn inputs                      *)

BaseInputs ==
    [method : {M_POST}, url : Urls, headers : HeaderMaps,
     components : ComponentLists,
     created : {None, Some(ClockStart)},
     expires : {None, Some(ExpiresSample)},
     nonce : {None, Some(N_n1)},
     multi : BOOLEAN]

\* the received request of a run; with multi the header x-id arrives as an
\* array of two values
baseRequest(in) ==
    LET r == Receive(in.method, in.url, in.headers) IN
    IF in.multi /\ IsSome(prop(r.headers, C_x_id))
    THEN [r EXCEPT !.headers = setProp(r.headers, C_x_id, [arr |-> TRUE, a |-> <<V_7, V_8>>])]
    ELSE r

baseSigInput(in) ==
    [label |-> L_sig1, components |-> in.components, keyid |-> K_k1,
     alg |-> A_rsa_pss_sha512, created |-> in.created, expires |-> in.expires,
     nonce |-> in.nonce]

InitBase ==
    /\ clock = ClockStart
    /\ registry = <<>>
    /\ bIn \in BaseInputs
    /\ inBase = None
    /\ outBase = None
    /\ vpc = "idle" /\ vargs = None /\ vlocals = None /\ vresult = None /\ vcalls = <<>>
    /\ signer = None /\ sent = None /\ arrived = None
    /\ mopts = None /\ mpc = "idle" /\ mreq = None /\ reply = None /\ mlog = <<>>
    /\ pIn = None /\ pOut = None
    /\ SvcIdle

BuildInbound ==
    /\ inBase = None
    /\ inBase' = Some(buildSignatureBase(baseRequest(bIn), baseSigInput(bIn)))
    /\ UNCHANGED <<clock, registry, bIn, outBase, verVars, rtVars, mwVars, parseVars, svcVars>>

BuildOutgoing ==
    /\ outBase = None
    /\ IsSome(bIn.created)
    /\ outBase' = Some(buildOutgoingSignatureBase(
                          [method |-> bIn.method, url |-> bIn.url], bIn.headers,
                          bIn.components, K_k1, A_rsa_pss_sha512, Get(bIn.created)))
    /\ UNCHANGED <<clock, registry, bIn, inBase, verVars, rtVars, mwVars, parseVars, svcVars>>

NextBase == BuildInbound \/ BuildOutgoing

SpecBase == InitBase /\ [][NextBase]_vars

---------------------------------------------------------------------------
(* SpecVerify: calls of verifySignature with drawn arguments               *)

VerifyRequest == Receive(M_POST, URL_p_q, <<[k |-> C_x_id, v |-> V_7]>>)
VerifyComponents == <<C_method, C_target_uri, C_x_id>>

Algs == {A_rsa_pss_sha512, A_rsa_v1_5_sha256, A_test_algo}
MaxAgeOptions == {None, Some(0), Some(120)}
AlgorithmsOptions ==
    {None, Some(<<>>), Some(<<A_rsa_v1_5_sha256>>), Some(<<A_rsa_pss_sha512, A_test_algo>>)}
Resolvers ==
    {[kind |-> "resolves", key |-> "A"], [kind |-> "resolves", key |-> "B"],
     [kind |-> "rejects", key |-> "none"]}

\* maxAge as verifySignature will read it
sampleMaxAge(option) == IF IsSome(option) THEN Get(option) ELSE DEFAULT_MAX_AGE

\* created values around the two freshness boundaries, or none
CreatedChoices(now, maxAge) ==
    {None} \cup {Some(now - age) :
                    age \in {maxAge + 1, maxAge, maxAge - 1, 0, -30,
                             -FUTURE_SKEW, -(FUTURE_SKEW + 1)}}

\* expires values around the clock, or none
ExpiresChoices(now) == {None, Some(now - 1), Some(now), Some(now + 1)}

\* signature bytes that are not a signature of anything
GarbageBytes == <<0, 1, 2>>

InitVerify ==
    /\ clock = ClockStart
    /\ registry = BuiltinRegistry
    /\ bIn = None /\ inBase = None /\ outBase = None
    /\ vpc = "idle" /\ vargs = None /\ vlocals = None /\ vresult = None /\ vcalls = <<>>
    /\ signer = None /\ sent = None /\ arrived = None
    /\ mopts = None /\ mpc = "idle" /\ mreq = None /\ reply = None /\ mlog = <<>>
    /\ pIn = None /\ pOut = None
    /\ SvcIdle

\* a caller hands verifySignature a signature input, the signature bytes (made
\* with key "A" over the base of the request, or garbage), a resolver and options
CallVerify ==
    /\ vpc = "idle"
    /\ \E alg \in Algs, maxAge \in MaxAgeOptions, algorithms \in AlgorithmsOptions,
          keyResolver \in Resolvers, genuine \in BOOLEAN, now2 \in {clock, clock + 1} :
       \E created \in CreatedChoices(clock, sampleMaxAge(maxAge)), expires \in ExpiresChoices(clock) :
           LET sigInput == [label |-> L_sig1, components |-> VerifyComponents, keyid |-> K_k1,
                            alg |-> alg, created |-> created, expires |-> expires, nonce |-> None]
               value == IF genuine
                        THEN cryptoSign(alg, "A", encode(buildSignatureBase(VerifyRequest, sigInput)))
                        ELSE GarbageBytes
           IN /\ VerifyEnter([request |-> VerifyRequest, sigInput |-> sigInput,
                              signature |-> [label |-> L_sig1, value |-> value],
                              keyResolver |-> keyResolver,
                              options |-> [maxAge |-> maxAge, algorithms |-> algorithms]],
                             now2)
              /\ UNCHANGED <<clock, registry, baseVars, rtVars, mwVars, parseVars, svcVars>>

\* a test or an extension registers an algorithm under the name test-algo
RegisterTestAlgorithm ==
    /\ \E impl \in {"mock", "throws"} :
           registry' = registerAlgorithm(registry, [name |-> A_test_algo, impl |-> impl])
    /\ UNCHANGED <<clock, baseVars, verVars, rtVars, mwVars, parseVars, svcVars>>

NextVerify ==
    \/ CallVerify
    \/ ResolveSettles
    \/ VerifySettles
    \/ VerifyReturn
    \/ RegisterTestAlgorithm

SpecVerify == InitVerify /\ [][NextVerify]_vars

---------------------------------------------------------------------------
(* SpecRoundTrip: a Signer signs a request description, the request is     *)
(* received (as sent, or with one part changed on its way), its two        *)
(* signature headers are parsed and handed to verifySignature together     *)
(* with a resolver that returns the public key of the Signer's key.        *)

H_signature_input == toLowerCase(H_Signature_Input)
H_signature == toLowerCase(H_Signature)
P_https == <<"h", "t", "t", "p", "s">>
P_http == <<"h", "t", "t", "p">>
B_body == <<"{", "}">>

SignerAlgorithms == {A_rsa_pss_sha512, A_rsa_v1_5_sha256}
SignerComponentLists ==
    {<<>>, <<C_method>>, <<C_target_uri>>, <<C_authority>>, <<C_scheme>>, <<C_path>>,
     <<C_query>>, <<C_x_id>>, <<C_content_digest>>,
     <<C_method, C_target_uri, C_x_id>>,
     <<C_method, C_path, C_query, C_content_digest>>,
     <<C_x_id, C_status, C_method, C_x_id>>}
Descriptions ==
    [method : {M_POST}, url : Urls, headers : HeaderMaps, body : {None, Some(B_body)}]
\* seconds between the signing and the verification
Delays == {0, DEFAULT_MAX_AGE, DEFAULT_MAX_AGE + 1}
\* the part of the received request that was changed on its way
Tampers == {"none", "method", "path", "query", "host", "scheme", "header"}

\* the received request with one part given another value
tamper(request, kind) ==
    CASE kind = "none" -> request
      [] kind = "method" ->
            [request EXCEPT !.method = IF @ = M_POST THEN M_GET ELSE M_POST]
      [] kind = "path" -> [request EXCEPT !.url = <<"/", "t">> \o @]
      [] kind = "query" ->
            [request EXCEPT !.url = IF indexOf(@, "?") > 0 THEN @ \o <<"&", "t">>
                                    ELSE @ \o <<"?", "t">>]
      [] kind = "host" -> [request EXCEPT !.hostname = <<"t", ".">> \o @]
      [] kind = "scheme" ->
            [request EXCEPT !.protocol = IF @ = P_https THEN P_http ELSE P_https]
      [] kind = "header" ->
            [request EXCEPT !.headers = setProp(@, C_x_id, [arr |-> FALSE, s |-> V_8])]

\* request.headers[name] as string, "" for a header that is absent
headerText(request, name) ==
    LET value == prop(request.headers, name) IN
    IF ~IsSome(value) THEN <<>> ELSE Get(value).s

InitRoundTrip ==
    /\ clock = ClockStart
    /\ registry = BuiltinRegistry
    /\ bIn = None /\ inBase = None /\ outBase = None
    /\ vpc = "idle" /\ vargs = None /\ vlocals = None /\ vresult = None /\ vcalls = <<>>
    /\ signer = None /\ sent = None /\ arrived = None
    /\ mopts = None /\ mpc = "idle" /\ mreq = None /\ reply = None /\ mlog = <<>>
    /\ pIn = None /\ pOut = None
    /\ SvcIdle

CreateSigner ==
    /\ signer = None
    /\ \E algorithm \in SignerAlgorithms, components \in SignerComponentLists :
           LET made == createSigner(registry, [keyId |-> K_k1, privateKey |-> "A",
                                               algorithm |-> algorithm,
                                               components |-> components])
           IN IsSome(made) /\ signer' = made
    /\ UNCHANGED <<clock, registry, baseVars, verVars, sent, arrived, mwVars, parseVars, svcVars>>

\* signer.sign(request)
Sign ==
    /\ IsSome(signer) /\ sent = None
    /\ \E request \in Descriptions :
           sent' = Some([request |-> request,
                         headers |-> sign(Get(signer), request, clock)])
    /\ UNCHANGED <<clock, registry, baseVars, verVars, signer, arrived, mwVars, parseVars, svcVars>>

\* the request is sent with the headers sign returned and is received, as
\* sent or with one part changed, after some seconds
Deliver ==
    /\ IsSome(sent) /\ arrived = None
    /\ \E delay \in Delays, kind \in Tampers :
           LET original == Receive(Get(sent).request.method, Get(sent).request.url,
                                   Get(sent).headers)
           IN /\ kind = "header" => IsSome(prop(original.headers, C_x_id))
              /\ arrived' = Some([request |-> tamper(original, kind),
                                  original |-> original, kind |-> kind])
              /\ clock' = clock + delay
    /\ UNCHANGED <<registry, baseVars, verVars, signer, sent, mwVars, parseVars, svcVars>>

\* the receiver parses the two headers and calls verifySignature with the
\* first entry of each
VerifyArrived ==
    /\ vpc = "idle" /\ IsSome(arrived)
    /\ LET request == Get(arrived).request
           sigInputs == parseSignatureInput(headerText(request, H_signature_input))
           signatures == parseSignature(headerText(request, H_signature))
       IN /\ Len(sigInputs) >= 1 /\ Len(signatures) >= 1
          /\ VerifyEnter([request |-> request, sigInput |-> sigInputs[1],
                          signature |-> signatures[1],
                          keyResolver |-> [kind |-> "resolves", key |-> Get(signer).key],
                          options |-> [maxAge |-> None, algorithms |-> None]],
                         clock)
    /\ UNCHANGED <<clock, registry, baseVars, rtVars, mwVars, parseVars, svcVars>>

NextRoundTrip ==
    \/ CreateSigner
    \/ Sign
    \/ Deliver
    \/ VerifyArrived
    \/ ResolveSettles
    \/ VerifySettles
    \/ VerifyReturn

SpecRoundTrip == InitRoundTrip /\ [][NextRoundTrip]_vars

---------------------------------------------------------------------------
(* index.ts: the middleware httpSig and sendChallenge                      *)

DEFAULT_REQUIRED_COMPONENTS == <<C_method, C_target_uri, C_authority>>

H_WWW_Authenticate ==
    <<"W", "W", "W", "-", "A", "u", "t", "h", "e", "n", "t", "i", "c", "a", "t", "e">>
CH_realm ==
    <<"S", "i", "g", "n", "a", "t", "u", "r", "e", " ", "r", "e", "a", "l", "m", "=",
      "\"", "a", "p", "i", "\"">>
CH_error == <<",", " ", "e", "r", "r", "o", "r", "=", "\"">>
CH_headers == <<",", " ", "h", "e", "a", "d", "e", "r", "s", "=", "\"">>

\* the error codes as the text that is put into the challenge
ErrorChars ==
    "signature_required" :>
        <<"s", "i", "g", "n", "a", "t", "u", "r", "e", "_", "r", "e", "q", "u", "i",
          "r", "e", "d">> @@
    "invalid_signature" :>
        <<"i", "n", "v", "a", "l", "i", "d", "_", "s", "i", "g", "n", "a", "t", "u",
          "r", "e">> @@
    "missing_components" :>
        <<"m", "i", "s", "s", "i", "n", "g", "_", "c", "o", "m", "p", "o", "n", "e",
          "n", "t", "s">> @@
    "unsupported_algorithm" :>
        <<"u", "n", "s", "u", "p", "p", "o", "r", "t", "e", "d", "_", "a", "l", "g",
          "o", "r", "i", "t", "h", "m">> @@
    "algorithm_not_allowed" :>
        <<"a", "l", "g", "o", "r", "i", "t", "h", "m", "_", "n", "o", "t", "_", "a",
          "l", "l", "o", "w", "e", "d">> @@
    "signature_expired" :>
        <<"s", "i", "g", "n", "a", "t", "u", "r", "e", "_", "e", "x", "p", "i", "r",
          "e", "d">> @@
    "signature_future" :>
        <<"s", "i", "g", "n", "a", "t", "u", "r", "e", "_", "f", "u", "t", "u", "r",
          "e">> @@
    "key_not_found" :>
        <<"k", "e", "y", "_", "n", "o", "t", "_", "f", "o", "u", "n", "d">> @@
    "verification_failed" :>
        <<"v", "e", "r", "i", "f", "i", "c", "a", "t", "i", "o", "n", "_", "f", "a",
          "i", "l", "e", "d">> @@
    "configuration_error" :>
        <<"c", "o", "n", "f", "i", "g", "u", "r", "a", "t", "i", "o", "n", "_", "e",
          "r", "r", "o", "r">>

MSG_required ==
    <<"R", "e", "q", "u", "e", "s", "t", " ", "s", "i", "g", "n", "a", "t", "u", "r",
      "e", " ", "r", "e", "q", "u", "i", "r", "e", "d">>
MSG_format ==
    <<"I", "n", "v", "a", "l", "i", "d", " ", "s", "i", "g", "n", "a", "t", "u", "r",
      "e", " ", "f", "o", "r", "m", "a", "t">>
MSG_label ==
    <<"S", "i", "g", "n", "a", "t", "u", "r", "e", " ", "l", "a", "b", "e", "l", " ",
      "m", "i", "s", "m", "a", "t", "c", "h">>
MSG_cover ==
    <<"S", "i", "g", "n", "a", "t", "u", "r", "e", " ", "m", "u", "s", "t", " ", "c",
      "o", "v", "e", "r", ":", " ">>
MSG_config ==
    <<"H", "T", "T", "P", "_", "S", "I", "G", "_", "J", "W", "K", "S", "_", "U", "R",
      "L", " ", "n", "o", "t", " ", "c", "o", "n", "f", "i", "g", "u", "r", "e", "d">>
MSG_unsupported ==
    <<"U", "n", "s", "u", "p", "p", "o", "r", "t", "e", "d", " ", "s", "i", "g", "n",
      "a", "t", "u", "r", "e", " ", "a", "l", "g", "o", "r", "i", "t", "h", "m">>
MSG_not_allowed ==
    <<"S", "i", "g", "n", "a", "t", "u", "r", "e", " ", "a", "l", "g", "o", "r", "i",
      "t", "h", "m", " ", "n", "o", "t", " ", "a", "l", "l", "o", "w", "e", "d">>
MSG_expired ==
    <<"S", "i", "g", "n", "a", "t", "u", "r", "e", " ", "h", "a", "s", " ", "e", "x",
      "p", "i", "r", "e", "d">>
MSG_future ==
    <<"S", "i", "g", "n", "a", "t", "u", "r", "e", " ", "t", "i", "m", "e", "s", "t",
      "a", "m", "p", " ", "i", "s", " ", "i", "n", " ", "t", "h", "e", " ", "f", "u",
      "t", "u", "r", "e">>
MSG_key ==
    <<"S", "i", "g", "n", "i", "n", "g", " ", "k", "e", "y", " ", "n", "o", "t", " ",
      "f", "o", "u", "n", "d">>
MSG_failed ==
    <<"S", "i", "g", "n", "a", "t", "u", "r", "e", " ", "v", "e", "r", "i", "f", "i",
      "c", "a", "t", "i", "o", "n", " ", "f", "a", "i", "l", "e", "d">>

\* the table errorMessages of the handler
errorMessages ==
    "unsupported_algorithm" :> MSG_unsupported @@
    "algorithm_not_allowed" :> MSG_not_allowed @@
    "signature_expired" :> MSG_expired @@
    "signature_future" :> MSG_future @@
    "key_not_found" :> MSG_key @@
    "invalid_signature" :> MSG_failed @@
    "verification_failed" :> MSG_failed

\* a reply object on which nothing was set or sent yet; sent holds the
\* payloads handed to reply.send, in order
newReply == [statusCode |-> 200, headers |-> <<>>, sent |-> <<>>]

replyHeader(rep, name, value) == [rep EXCEPT !.headers = setProp(@, name, value)]
replyCode(rep, statusCode) == [rep EXCEPT !.statusCode = statusCode]
replySend(rep, payload) == [rep EXCEPT !.sent = Append(@, payload)]

\* mutant: the challenge for signature_required names no components
sendChallenge_headersOmitted(rep, error, message, requiredHeaders, missingHeaders) ==
    LET base == CH_realm \o (IF error # "signature_required"
                             THEN CH_error \o ErrorChars[error] \o QUOTE ELSE <<>>)
        challenge ==
            IF IsSome(missingHeaders) /\ Len(Get(missingHeaders)) > 0
            THEN base \o CH_headers \o join(Get(missingHeaders), SPACE) \o QUOTE
            ELSE base
    IN replySend(replyCode(replyHeader(rep, H_WWW_Authenticate, challenge), 401),
                 [error |-> error, message |-> message])

\* mutant: the challenge is sent with the status the reply already had
sendChallenge_statusKept(rep, error, message, requiredHeaders, missingHeaders) ==
    LET base == CH_realm \o (IF error # "signature_required"
                             THEN CH_error \o ErrorChars[error] \o QUOTE ELSE <<>>)
        challenge ==
            IF IsSome(missingHeaders) /\ Len(Get(missingHeaders)) > 0
            THEN base \o CH_headers \o join(Get(missingHeaders), SPACE) \o QUOTE
            ELSE IF error = "signature_required"
            THEN base \o CH_headers \o join(requiredHeaders, SPACE) \o QUOTE
            ELSE base
    IN replySend(replyHeader(rep, H_WWW_Authenticate, challenge),
                 [error |-> error, message |-> message])

\* sendChallenge: the reply after the challenge header, the status and the
\* body were set; missingHeaders is None when the argument is not given
sendChallenge(rep, error, message, requiredHeaders, missingHeaders) ==
    LET base == CH_realm \o (IF error # "signature_required"
                             THEN CH_error \o ErrorChars[error] \o QUOTE ELSE <<>>)
        challenge ==
            IF IsSome(missingHeaders) /\ Len(Get(missingHeaders)) > 0
            THEN base \o CH_headers \o join(Get(missingHeaders), SPACE) \o QUOTE
            ELSE IF error = "signature_required"
            THEN base \o CH_headers \o join(requiredHeaders, SPACE) \o QUOTE
            ELSE base
    IN replySend(replyCode(replyHeader(rep, H_WWW_Authenticate, challenge), 401),
                 [error |-> error, message |-> message])

\* reply.code(500).send({error: 'configuration_error', ...})
sendConfigurationError(rep) ==
    replySend(replyCode(rep, 500), [error |-> "configuration_error", message |-> MSG_config])

\* httpSig(options): the values the handler closes over, defaults taken from
\* DEFAULT_REQUIRED_COMPONENTS and from config.httpSignature
httpSigOptions(options, config) ==
    [required |-> IF IsSome(options.required) THEN Get(options.required)
                  ELSE DEFAULT_REQUIRED_COMPONENTS,
     jwksUrl |-> Coalesce(options.jwksUrl, config.jwksUrl),
     maxAge |-> Coalesce(options.maxAge, config.maxAge),
     algorithms |-> options.algorithms]

\* request.headers[name] as string | undefined
headerString(request, name) ==
    LET value == prop(request.headers, name) IN
    IF IsSome(value) THEN Some(Get(value).s) ELSE None

\* !header: the header is undefined or the empty string
falsy(header) == ~IsSome(header) \/ Get(header) = <<>>

\* mutant: the first entry of the Signature header is taken, whatever its label
findSignature_first(signatures, sigInput) == Some(signatures[1])

\* signatures.find((s) => s.label === sigInput.label)
findSignature(signatures, sigInput) ==
    LET places == {i \in 1..Len(signatures) : signatures[i].label = sigInput.label} IN
    IF places = {} THEN None
    ELSE Some(signatures[CHOOSE i \in places : \A j \in places : i <= j])

\* mutant: once a component is missing the whole required list is reported
missingComponents_all(required, sigInput) ==
    IF \E i \in 1..Len(required) : ~includes(sigInput.components, required[i])
    THEN required ELSE <<>>

\* required.filter((c) => !sigInput.components.includes(c))
missingComponents(required, sigInput) ==
    SelectSeq(required, LAMBDA c : ~includes(sigInput.components, c))

\* how the part of the handler before its await ends: with a reply sent
\* (kind "replied") or with the call of verifySignature (kind "verify");
\* log names what the handler called on its way
replied(rep, log) ==
    [kind |-> "replied", reply |-> rep, log |-> Append(log, "send"),
     sigInput |-> None, signature |-> None]
toVerify(rep, log, sigInput, signature) ==
    [kind |-> "verify", reply |-> rep, log |-> log,
     sigInput |-> Some(sigInput), signature |-> Some(signature)]

\* the handler from the parsed headers on (lines 42 to 77)
handlerAfterParse(options, rep, sigInputs, signatures) ==
    LET log == <<"parseSignatureInput", "parseSignature">> IN
    IF Len(sigInputs) = 0 \/ Len(signatures) = 0
    THEN replied(sendChallenge(rep, "invalid_signature", MSG_format, options.required, None),
                 log)
    ELSE LET sigInput == sigInputs[1]
             signature == findSignature(signatures, sigInput)
             missing == missingComponents(options.required, sigInput)
         IN IF ~IsSome(signature)
            THEN replied(sendChallenge(rep, "invalid_signature", MSG_label,
                                       options.required, None), log)
            ELSE IF Len(missing) > 0
            THEN replied(sendChallenge(rep, "missing_components",
                                       MSG_cover \o join(missing, COMMA_SPACE),
                                       options.required, Some(missing)), log)
            ELSE IF falsy(options.jwksUrl)
            THEN replied(sendConfigurationError(rep), log)
            ELSE toVerify(rep, log \o <<"createKeyResolver", "verifySignature">>,
                          sigInput, Get(signature))

\* the handler from its call to its await (lines 28 to 77)
handlerBeforeAwait(request, options, rep) ==
    LET signatureHeader == headerString(request, H_signature)
        signatureInputHeader == headerString(request, H_signature_input)
    IN IF falsy(signatureHeader) \/ falsy(signatureInputHeader)
       THEN replied(sendChallenge(rep, "signature_required", MSG_required,
                                  options.required, None), <<>>)
       ELSE handlerAfterParse(options, rep,
                              parseSignatureInput(Get(signatureInputHeader)),
                              parseSignature(Get(signatureHeader)))

\* mutant: the signature information is attached whatever the result says
handlerAfterAwait_attachAlways(result, request, rep, required) ==
    LET orEmpty(o) == IF IsSome(o) THEN Get(o) ELSE <<>>
        attached == [request EXCEPT !.httpSignature =
                        Some([keyId |-> orEmpty(result.keyId),
                              algorithm |-> orEmpty(result.algorithm),
                              components |-> orEmpty(result.components),
                              created |-> result.created])]
    IN IF ~result.valid
       THEN LET error == IF IsSome(result.error) THEN Get(result.error)
                         ELSE "invalid_signature"
                message == IF error \in DOMAIN errorMessages THEN errorMessages[error]
                           ELSE MSG_failed
            IN [request |-> attached,
                reply |-> sendChallenge(rep, error, message, required, None),
                log |-> <<"attach", "send">>]
       ELSE [request |-> attached, reply |-> rep, log |-> <<"attach">>]

\* the handler after its await (lines 82 to 107): the request and the reply
\* as it leaves them
handlerAfterAwait(result, request, rep, required) ==
    IF ~result.valid
    THEN LET error == IF IsSome(result.error) THEN Get(result.error)
                      ELSE "invalid_signature"
             message == IF error \in DOMAIN errorMessages THEN errorMessages[error]
                        ELSE MSG_failed
         IN [request |-> request,
             reply |-> sendChallenge(rep, error, message, required, None),
             log |-> <<"send">>]
    ELSE [request |-> [request EXCEPT !.httpSignature =
                          Some([keyId |-> Get(result.keyId),
                                algorithm |-> Get(result.algorithm),
                                components |-> Get(result.components),
                                created |-> result.created])],
          reply |-> rep,
          log |-> <<"attach">>]

---------------------------------------------------------------------------
(* SpecMiddleware: a handler is made by httpSig, a client signs a request  *)
(* and sends it (as signed, or with its two signature headers or its       *)
(* method changed), and the handler is called with the received request.   *)
(* The key set published at jwksUrl is the environment's: the resolver     *)
(* made by createKeyResolver yields the signer's public key, another key,  *)
(* or rejects.                                                             *)

JWKS_URL == <<"h", "t", "t", "p", "s", ":", "/", "/", "k", ".", "i", "o", "/", "j", "w", "k", "s">>
L_sig0 == <<"s", "i", "g", "0">>
S_garbage == <<"g", "a", "r", "b", "a", "g", "e">>

RequiredOptions == {None, Some(<<C_method, C_x_id>>), Some(<<C_x_id, C_status>>)}
MwSignerLists ==
    {DEFAULT_REQUIRED_COMPONENTS, <<C_method, C_target_uri, C_x_id>>,
     <<C_x_id, C_status, C_method, C_x_id>>, <<C_method>>}
\* what is changed on the way, and the seconds by which the receiver's clock
\* is ahead of the time of signing when it handles the request
MwDeliveries ==
    {[kind |-> "none", delay |-> 0], [kind |-> "method", delay |-> 0],
     [kind |-> "none", delay |-> DEFAULT_MAX_AGE + 1],
     [kind |-> "none", delay |-> -(FUTURE_SKEW + 1)]}
\* the clients: their algorithm, their component list and the headers of
\* their request; one of them signs with an algorithm that is registered in
\* its own process only
MwClients ==
    [algorithm : {A_rsa_pss_sha512}, components : MwSignerLists,
     headers : {<<>>, <<[k |-> C_x_id, v |-> V_7]>>}]
    \cup {[algorithm |-> A_test_algo, components |-> DEFAULT_REQUIRED_COMPONENTS,
           headers |-> <<>>]}
ClientRegistry == registerAlgorithm(BuiltinRegistry, [name |-> A_test_algo, impl |-> "mock"])
\* how the two signature headers of the received request are formed
Shapes ==
    {"asSent", "noSignature", "noSignatureInput", "emptySignature", "garbageInput",
     "garbageSignature", "relabelled", "secondFirst", "decoy"}

\* a second signature input under the label sig0 and signature bytes for it
otherInput ==
    L_sig0 \o <<"=">> \o buildSignatureParams(
        [label |-> L_sig0, components |-> <<C_method>>, keyid |-> K_k1,
         alg |-> A_rsa_pss_sha512, created |-> None, expires |-> None, nonce |-> None])
otherSignature == L_sig0 \o <<"=", ":">> \o uint8ArrayToBase64(GarbageBytes) \o <<":">>

\* the headers of a received request with the two signature headers formed
\* in the given way
reshape(headers, shape) ==
    LET input == Get(prop(headers, H_signature_input)).s
        sig == Get(prop(headers, H_signature)).s
        without(name) == SelectSeq(headers, LAMBDA h : h.k # name)
        with(hs, name, text) == setProp(hs, name, [arr |-> FALSE, s |-> text])
    IN CASE shape = "asSent" -> headers
         [] shape = "noSignature" -> without(H_signature)
         [] shape = "noSignatureInput" -> without(H_signature_input)
         [] shape = "emptySignature" -> with(headers, H_signature, <<>>)
         [] shape = "garbageInput" -> with(headers, H_signature_input, S_garbage)
         [] shape = "garbageSignature" ->
                with(headers, H_signature, L_sig1 \o <<"=", ":", "A", ":">>)
         [] shape = "relabelled" ->
                with(headers, H_signature, L_sig0 \o SubSeq(sig, Len(L_sig1) + 1, Len(sig)))
         [] shape = "secondFirst" ->
                with(with(headers, H_signature_input, otherInput \o COMMA_SPACE \o input),
                     H_signature, sig \o COMMA_SPACE \o otherSignature)
         [] shape = "decoy" ->
                with(with(headers, H_signature_input, input \o COMMA_SPACE \o otherInput),
                     H_signature, otherSignature \o COMMA_SPACE \o sig)

\* the request object the handler is called with
incoming(r) ==
    [method |-> r.method, protocol |-> r.protocol, hostname |-> r.hostname,
     url |-> r.url, headers |-> r.headers, httpSignature |-> None]

InitMiddleware ==
    /\ clock = ClockStart
    /\ registry = BuiltinRegistry
    /\ bIn = None /\ inBase = None /\ outBase = None
    /\ vpc = "idle" /\ vargs = None /\ vlocals = None /\ vresult = None /\ vcalls = <<>>
    /\ signer = None /\ sent = None /\ arrived = None
    /\ mopts = None /\ mpc = "idle" /\ mreq = None /\ reply = None /\ mlog = <<>>
    /\ pIn = None /\ pOut = None
    /\ SvcIdle

\* httpSig(options) makes the handler of a route
HttpSig ==
    /\ mopts = None
    /\ \E required \in RequiredOptions, algorithms \in {None, Some(<<A_rsa_v1_5_sha256>>)},
          jwksUrl \in {None, Some(JWKS_URL)} :
           mopts' = Some(httpSigOptions(
                        [required |-> required, jwksUrl |-> None, maxAge |-> None,
                         algorithms |-> algorithms],
                        [jwksUrl |-> jwksUrl, maxAge |-> Some(DEFAULT_MAX_AGE)]))
    /\ UNCHANGED <<clock, registry, baseVars, verVars, rtVars, mpc, mreq, reply, mlog, parseVars, svcVars>>

\* a client signs a request with key "A" and sends it; it is received with
\* its signature headers formed in some way, at some time of the receiver
RequestArrives ==
    /\ IsSome(mopts) /\ arrived = None
    /\ \E client \in MwClients, shape \in Shapes, delivery \in MwDeliveries :
           LET made == Get(createSigner(ClientRegistry,
                                        [keyId |-> K_k1, privateKey |-> "A",
                                         algorithm |-> client.algorithm,
                                         components |-> client.components]))
               request == [method |-> M_POST, url |-> URL_p_q, headers |-> client.headers,
                           body |-> None]
               original == Receive(request.method, request.url, sign(made, request, clock))
               shaped == [original EXCEPT !.headers = reshape(@, shape)]
           IN /\ arrived' = Some([request |-> tamper(shaped, delivery.kind),
                                  original |-> original, kind |-> delivery.kind,
                                  shape |-> shape])
              /\ clock' = clock + delivery.delay
    /\ UNCHANGED <<registry, baseVars, verVars, signer, sent, mwVars, parseVars, svcVars>>

\* the handler is called with the received request and runs to its end or
\* to its await of verifySignature
HandlerEnter ==
    /\ mpc = "idle" /\ IsSome(mopts) /\ IsSome(arrived) /\ vpc = "idle"
    /\ \E step \in {handlerBeforeAwait(incoming(Get(arrived).request), Get(mopts), newReply)} :
           /\ mreq' = Some(incoming(Get(arrived).request))
           /\ reply' = Some(step.reply)
           /\ mlog' = step.log
           /\ IF step.kind = "replied"
              THEN mpc' = "done" /\ UNCHANGED verVars
              ELSE /\ mpc' = "awaiting"
                   /\ \E keyResolver \in Resolvers :
                          VerifyEnter([request |-> incoming(Get(arrived).request),
                                       sigInput |-> Get(step.sigInput),
                                       signature |-> Get(step.signature),
                                       keyResolver |-> keyResolver,
                                       options |-> [maxAge |-> Get(mopts).maxAge,
                                                    algorithms |-> Get(mopts).algorithms]],
                                      clock)
    /\ UNCHANGED <<clock, registry, baseVars, rtVars, mopts, parseVars, svcVars>>

\* verifySignature has ended and the handler goes on after its await
HandlerResume ==
    /\ mpc = "awaiting" /\ vpc = "returned"
    /\ IF Get(vresult).threw
       THEN mpc' = "threw" /\ UNCHANGED <<mreq, reply, mlog>>
       ELSE \E step \in {handlerAfterAwait(Get(vresult).value, Get(mreq), Get(reply),
                                           Get(mopts).required)} :
                /\ mpc' = "done"
                /\ mreq' = Some(step.request)
                /\ reply' = Some(step.reply)
                /\ mlog' = mlog \o step.log
    /\ UNCHANGED <<clock, registry, baseVars, verVars, rtVars, mopts, parseVars, svcVars>>

NextMiddleware ==
    \/ HttpSig
    \/ RequestArrives
    \/ HandlerEnter
    \/ ResolveSettles
    \/ VerifySettles
    \/ HandlerResume

SpecMiddleware == InitMiddleware /\ [][NextMiddleware]_vars

---------------------------------------------------------------------------
(* SpecParse: a Signature-Input header is written from a list of signature *)
(* inputs (and of texts that are no signature input) and is handed to      *)
(* parseSignatureInput.  The quoted values hold the characters the parser  *)
(* looks for: comma, parentheses, semicolon, equals sign, backslash.       *)

V_a_comma_b == <<"a", ",", "b">>
V_k_comma_1 == <<"k", ",", "1">>
V_n_comma_1 == <<"n", ",", "1">>
V_a_open_b == <<"a", "(", "b">>
V_k_open_1 == <<"k", "(", "1">>
V_n_open_1 == <<"n", "(", "1">>
V_k_close_1 == <<"k", ")", "1">>
V_n_close_1 == <<"n", ")", "1">>
V_c_close_d == <<"c", ")", "d">>
V_k_created == <<"k", ";", "c", "r", "e", "a", "t", "e", "d", "=", "5">>
V_n_backslashes == <<"n", "\\", "\\">>
V_keyid_tag == <<";", "k", "e", "y", "i", "d", "=">>
S_invalid == <<"i", "n", "v", "a", "l", "i", "d">>
S_digit_label ==
    <<"1", "s", "i", "g", "=", "(", "\"", "@", "m", "e", "t", "h", "o", "d", "\"", ")",
      ";", "k", "e", "y", "i", "d", "=", "\"", "k", "1", "\"", ";", "a", "l", "g", "=",
      "\"", "r", "s", "a", "-", "p", "s", "s", "-", "s", "h", "a", "5", "1", "2", "\"">>
L_sig == <<"s", "i", "g">>

\* a signature input as its writer means it; nonceFirst puts the nonce
\* before the other parameters
Input(components, keyid, alg, created, expires, nonce, nonceFirst) ==
    [form |-> "input", text |-> <<>>, components |-> components, keyid |-> keyid,
     alg |-> alg, created |-> created, expires |-> expires, nonce |-> nonce,
     nonceFirst |-> nonceFirst]
\* a text that is no signature input
Text(text) ==
    [form |-> "text", text |-> text, components |-> <<>>, keyid |-> None, alg |-> None,
     created |-> None, expires |-> None, nonce |-> None, nonceFirst |-> FALSE]

Plain(components, keyid, nonce) ==
    Input(components, Some(keyid), Some(A_rsa_pss_sha512), None, None, nonce, FALSE)

SegmentChoices ==
    {Plain(<<C_method>>, K_k1, None),
     Input(<<C_method, C_x_id, C_method>>, Some(K_k1), Some(A_rsa_v1_5_sha256),
           Some(ClockStart), Some(ExpiresSample), Some(N_n1), FALSE),
     Plain(<<>>, K_k1, None),
     Plain(<<V_a_comma_b, C_method>>, V_k_comma_1, Some(V_n_comma_1)),
     Plain(<<V_a_open_b>>, V_k_open_1, Some(V_n_open_1)),
     Plain(<<C_method>>, V_k_close_1, Some(V_n_close_1)),
     Plain(<<V_c_close_d, C_method>>, K_k1, None),
     Plain(<<C_method>>, V_k_created, None),
     Plain(<<C_method>>, K_k1, Some(V_n_backslashes)),
     Input(<<C_method>>, None, Some(A_rsa_pss_sha512), Some(ClockStart), None, None, FALSE),
     Input(<<C_method>>, Some(K_k1), None, None, None, Some(N_n1), FALSE),
     Input(<<C_method>>, None, Some(A_rsa_pss_sha512), None, None, Some(V_keyid_tag), TRUE),
     Text(S_invalid),
     Text(S_digit_label),
     Text(<<>>)}

MaxSegments == 2
HeaderChoices ==
    [segments : UNION {[1..n -> SegmentChoices] : n \in 1..MaxSegments},
     separator : {<<",">>, COMMA_SPACE}]

\* the label of the k-th segment of a header: sig1, sig2, ...
labelOf(k) == L_sig \o numberToString(k)

\* the text of one signature input under a label
writeInput(label, d) ==
    LET nonce == IF IsSome(d.nonce) THEN T_nonce \o Get(d.nonce) \o QUOTE ELSE <<>>
    IN label \o <<"=", "(">> \o quoteList(d.components) \o <<")">>
       \o (IF d.nonceFirst THEN nonce ELSE <<>>)
       \o (IF IsSome(d.keyid) THEN T_keyid \o Get(d.keyid) \o QUOTE ELSE <<>>)
       \o (IF IsSome(d.alg) THEN T_alg \o Get(d.alg) \o QUOTE ELSE <<>>)
       \o (IF IsSome(d.created) THEN T_created \o numberToString(Get(d.created)) ELSE <<>>)
       \o (IF IsSome(d.expires) THEN T_expires \o numberToString(Get(d.expires)) ELSE <<>>)
       \o (IF d.nonceFirst THEN <<>> ELSE nonce)

\* the header written from a list of segments
RECURSIVE writeSegments(_, _, _)
writeSegments(segments, separator, k) ==
    IF k > Len(segments) THEN <<>>
    ELSE (IF k > 1 THEN separator ELSE <<>>)
         \o (IF segments[k].form = "input" THEN writeInput(labelOf(k), segments[k])
             ELSE segments[k].text)
         \o writeSegments(segments, separator, k + 1)

writeHeader(in) == writeSegments(in.segments, in.separator, 1)

InitParse ==
    /\ SvcIdle
    /\ clock = ClockStart
    /\ registry = BuiltinRegistry
    /\ bIn = None /\ inBase = None /\ outBase = None
    /\ vpc = "idle" /\ vargs = None /\ vlocals = None /\ vresult = None /\ vcalls = <<>>
    /\ signer = None /\ sent = None /\ arrived = None
    /\ mopts = None /\ mpc = "idle" /\ mreq = None /\ reply = None /\ mlog = <<>>
    /\ pIn \in {Some(in) : in \in HeaderChoices}
    /\ pOut = None

\* parseSignatureInput(header): the try/catch of its loop lets no exception
\* of parseSingleSignatureInput out, and splitSignatures reads characters only
ParseHeader ==
    /\ IsSome(pIn) /\ pOut = None
    /\ pOut' = Some(returned(parseSignatureInput(writeHeader(Get(pIn)))))
    /\ UNCHANGED <<clock, registry, baseVars, verVars, rtVars, mwVars, pIn, svcVars>>

NextParse == ParseHeader

SpecParse == InitParse /\ [][NextParse]_vars

---------------------------------------------------------------------------
(* SpecSign: a Signer signs request descriptions whose caller supplied a   *)
(* digest header of its own, under one of several spellings, signature     *)
(* headers of its own, or none.                                            *)

H_content_digest_upper ==
    <<"C", "O", "N", "T", "E", "N", "T", "-", "D", "I", "G", "E", "S", "T">>
V_stale_digest == <<"s", "h", "a", "-", "2", "5", "6", "=", ":", "b", "2", "x", "k", ":">>
V_caller_signature == <<"s", "i", "g", "9", "=", ":", "A", "A", "A", "A", ":">>
V_caller_input == <<"s", "i", "g", "9", "=", "(", ")", ";", "c", "r", "e", "a", "t", "e", "d", "=", "1">>
DigestHeaderMaps ==
    {<<>>, <<[k |-> C_x_id, v |-> V_7]>>,
     <<[k |-> C_x_id, v |-> V_7], [k |-> H_Signature, v |-> V_caller_signature]>>,
     <<[k |-> H_Signature_Input, v |-> V_caller_input], [k |-> C_x_id, v |-> V_8]>>}
    \cup {<<[k |-> name, v |-> V_stale_digest]>> :
             name \in {C_content_digest, H_Content_Digest, H_content_digest_upper}}
DigestDescriptions ==
    [method : {M_POST}, url : {URL_p}, headers : DigestHeaderMaps,
     body : {None, Some(<<>>), Some(B_body)}]

InitSign ==
    /\ clock = ClockStart
    /\ registry = BuiltinRegistry
    /\ bIn = None /\ inBase = None /\ outBase = None
    /\ vpc = "idle" /\ vargs = None /\ vlocals = None /\ vresult = None /\ vcalls = <<>>
    /\ signer = None /\ sent = None /\ arrived = None
    /\ mopts = None /\ mpc = "idle" /\ mreq = None /\ reply = None /\ mlog = <<>>
    /\ pIn = None /\ pOut = None
    /\ SvcIdle

\* signer.sign(request); base is the signature base the call signed, after
\* is the caller's description once the call has returned
SignDescribed ==
    /\ IsSome(signer) /\ sent = None
    /\ \E request \in DigestDescriptions :
           sent' = Some([request |-> request,
                         headers |-> sign(Get(signer), request, clock),
                         base |-> signSignatureBase(Get(signer), request, clock),
                         after |-> signRequestAfter(Get(signer), request)])
    /\ UNCHANGED <<clock, registry, baseVars, verVars, signer, arrived, mwVars, parseVars, svcVars>>

NextSign ==
    \/ CreateSigner
    \/ SignDescribed

SpecSign == InitSign /\ [][NextSign]_vars

---------------------------------------------------------------------------
(* SpecRegistry: algorithms are registered while a signer is made, signs   *)
(* and the signed request is verified.  regLog holds every algorithm that  *)
(* was handed to registerAlgorithm, the two imported ones first.           *)

A_other_algo == <<"o", "t", "h", "e", "r", "-", "a", "l", "g", "o">>
A_never == <<"n", "e", "v", "e", "r", "-", "a", "l", "g", "o">>
MaxRegistrations == 3
TestAlgorithms ==
    {[name |-> A_test_algo, impl |-> "mock"], [name |-> A_test_algo, impl |-> "throws"],
     [name |-> A_other_algo, impl |-> "mock"]}
BuiltinLog ==
    <<[name |-> A_rsa_pss_sha512, impl |-> "builtin"],
      [name |-> A_rsa_v1_5_sha256, impl |-> "builtin"]>>
RegistryDescription ==
    [method |-> M_POST, url |-> URL_p_q, headers |-> <<[k |-> C_x_id, v |-> V_7]>>,
     body |-> None]

InitRegistry ==
    /\ clock = ClockStart
    /\ registry = BuiltinRegistry
    /\ bIn = None /\ inBase = None /\ outBase = None
    /\ vpc = "idle" /\ vargs = None /\ vlocals = None /\ vresult = None /\ vcalls = <<>>
    /\ signer = None /\ sent = None /\ arrived = None
    /\ mopts = None /\ mpc = "idle" /\ mreq = None /\ reply = None /\ mlog = <<>>
    /\ pIn = None /\ pOut = None
    /\ regLog = BuiltinLog
    /\ fetchers = <<>> /\ defaultResolver = None /\ held = {} /\ lastResolution = None
    /\ rnow = 0 /\ locks = <<>> /\ callers = <<>> /\ nextHandle = 1
    /\ cnow = 0 /\ cmax = 0 /\ cache = <<>> /\ accessed = <<>> /\ lastOp = None
    /\ onow = 0 /\ tokenCache = <<>> /\ refreshPromises = <<>> /\ tokenFetches = <<>> /\ clients = <<>>

\* registerAlgorithm(algo)
RegisterAlgorithm ==
    /\ Len(regLog) < Len(BuiltinLog) + MaxRegistrations
    /\ \E algo \in TestAlgorithms :
           /\ registry' = registerAlgorithm(registry, algo)
           /\ regLog' = Append(regLog, algo)
    /\ UNCHANGED <<clock, baseVars, verVars, rtVars, mwVars, parseVars, jwksVars, lockVars,
                   cacheVars, oauthVars>>

\* createSigner with one of the imported algorithms
MakeSigner ==
    /\ signer = None
    /\ \E algorithm \in SignerAlgorithms :
           LET made == createSigner(registry, [keyId |-> K_k1, privateKey |-> "A",
                                               algorithm |-> algorithm,
                                               components |-> VerifyComponents])
           IN IsSome(made) /\ signer' = made
    /\ UNCHANGED <<clock, registry, baseVars, verVars, sent, arrived, mwVars, parseVars,
                   svcVars>>

\* signer.sign(request)
SignOne ==
    /\ IsSome(signer) /\ sent = None
    /\ sent' = Some([request |-> RegistryDescription,
                     headers |-> sign(Get(signer), RegistryDescription, clock),
                     base |-> signSignatureBase(Get(signer), RegistryDescription, clock),
                     after |-> signRequestAfter(Get(signer), RegistryDescription)])
    /\ UNCHANGED <<clock, registry, baseVars, verVars, signer, arrived, mwVars, parseVars,
                   svcVars>>

\* the signed request is received and verifySignature is called with the
\* first entry of each header, as sent or naming another algorithm
VerifySent ==
    /\ vpc = "idle" /\ IsSome(sent)
    /\ \E keyResolver \in Resolvers, named \in {None, Some(A_test_algo), Some(A_other_algo)} :
           LET request == Receive(Get(sent).request.method, Get(sent).request.url,
                                  Get(sent).headers)
               sigInputs == parseSignatureInput(headerText(request, H_signature_input))
               signatures == parseSignature(headerText(request, H_signature))
           IN /\ Len(sigInputs) >= 1 /\ Len(signatures) >= 1
              /\ VerifyEnter([request |-> request,
                              sigInput |-> IF IsSome(named)
                                           THEN [sigInputs[1] EXCEPT !.alg = Get(named)]
                                           ELSE sigInputs[1],
                              signature |-> signatures[1],
                              keyResolver |-> keyResolver,
                              options |-> [maxAge |-> None, algorithms |-> None]],
                             clock)
    /\ UNCHANGED <<clock, registry, baseVars, rtVars, mwVars, parseVars, svcVars>>

NextRegistry ==
    \/ RegisterAlgorithm
    \/ MakeSigner
    \/ SignOne
    \/ VerifySent
    \/ ResolveSettles
    \/ VerifySettles
    \/ VerifyReturn

SpecRegistry == InitRegistry /\ [][NextRegistry]_vars

---------------------------------------------------------------------------
(* signature-base.ts: the JWKS key resolvers.  A fetcher is one call of    *)
(* createRemoteJWKSet; it is named by its place in fetchers.  A resolver   *)
(* is the fetcher its resolve closes over, kept with the URL its caller    *)
(* asked for.                                                              *)

\* createKeyResolver(jwksUrl): the fetchers after the call and the resolver
createKeyResolver(made, jwksUrl) ==
    [fetchers |-> Append(made, jwksUrl),
     resolver |-> [asked |-> jwksUrl, fetcher |-> Len(made) + 1]]

\* getDefaultKeyResolver(jwksUrl): the fetchers and the memo after the call,
\* and the resolver returned
getDefaultKeyResolver(made, memo, jwksUrl) ==
    IF ~IsSome(memo)
    THEN LET created == createKeyResolver(made, jwksUrl) IN
         [fetchers |-> created.fetchers, memo |-> Some(created.resolver),
          resolver |-> created.resolver]
    ELSE [fetchers |-> made, memo |-> memo,
          resolver |-> [Get(memo) EXCEPT !.asked = jwksUrl]]

---------------------------------------------------------------------------
(* SpecResolver: requests that pass the handler's checks are verified by   *)
(* handlers configured with one of two JWKS URLs or none, and callers      *)
(* construct resolvers of their own and resolve keys with them.            *)

JWKS_URL_2 == <<"h", "t", "t", "p", "s", ":", "/", "/", "k", "2", ".", "i", "o", "/", "j", "w", "k", "s">>
JwksUrls == {JWKS_URL, JWKS_URL_2}
MaxFetchers == 3

\* a request signed by a client, as received at the time it was signed
ResolverRequest ==
    LET made == Get(createSigner(BuiltinRegistry,
                                 [keyId |-> K_k1, privateKey |-> "A",
                                  algorithm |-> A_rsa_pss_sha512,
                                  components |-> DEFAULT_REQUIRED_COMPONENTS]))
        request == [method |-> M_POST, url |-> URL_p_q, headers |-> <<>>, body |-> None]
    IN incoming(Receive(request.method, request.url, sign(made, request, ClockStart)))

\* the handler of httpSig({}) under each configured URL, from its call with
\* that request to its await
HandlerSteps ==
    [jwksUrl \in {None} \cup {Some(u) : u \in JwksUrls} |->
        handlerBeforeAwait(ResolverRequest,
                           httpSigOptions([required |-> None, jwksUrl |-> None,
                                           maxAge |-> None, algorithms |-> None],
                                          [jwksUrl |-> jwksUrl,
                                           maxAge |-> Some(DEFAULT_MAX_AGE)]),
                           newReply)]

InitResolver ==
    /\ clock = ClockStart
    /\ registry = BuiltinRegistry
    /\ bIn = None /\ inBase = None /\ outBase = None
    /\ vpc = "idle" /\ vargs = None /\ vlocals = None /\ vresult = None /\ vcalls = <<>>
    /\ signer = None /\ sent = None /\ arrived = None
    /\ mopts = None /\ mpc = "idle" /\ mreq = None /\ reply = None /\ mlog = <<>>
    /\ pIn = None /\ pOut = None
    /\ SvcIdle

\* a handler takes the request: without a configured URL it replies 500;
\* with one it makes a resolver, and verifySignature, whose checks the
\* request passes, calls its resolve
HandlerVerifies ==
    /\ Len(fetchers) < MaxFetchers
    /\ \E jwksUrl \in DOMAIN HandlerSteps :
           LET step == HandlerSteps[jwksUrl] IN
           IF step.kind = "verify"
              /\ ~IsSome(checksBeforeResolve(registry, Get(step.sigInput),
                                             [maxAge |-> Some(DEFAULT_MAX_AGE),
                                              algorithms |-> None], clock, clock))
           THEN LET created == createKeyResolver(fetchers, Get(jwksUrl)) IN
                /\ fetchers' = created.fetchers
                /\ lastResolution' = Some(created.resolver)
                /\ UNCHANGED <<defaultResolver, held>>
           ELSE UNCHANGED jwksVars
    /\ UNCHANGED <<sigVars, oauthVars, regVars, lockVars, cacheVars>>

\* a caller constructs a resolver
CreateKeyResolver ==
    /\ Len(fetchers) < MaxFetchers
    /\ \E jwksUrl \in JwksUrls :
           LET created == createKeyResolver(fetchers, jwksUrl) IN
           /\ fetchers' = created.fetchers
           /\ held' = held \cup {created.resolver}
    /\ UNCHANGED <<sigVars, oauthVars, regVars, lockVars, cacheVars, defaultResolver, lastResolution>>

\* a caller asks for the default resolver
GetDefaultKeyResolver ==
    /\ Len(fetchers) < MaxFetchers
    /\ \E jwksUrl \in JwksUrls :
           LET got == getDefaultKeyResolver(fetchers, defaultResolver, jwksUrl) IN
           /\ fetchers' = got.fetchers
           /\ defaultResolver' = got.memo
           /\ held' = held \cup {got.resolver}
    /\ UNCHANGED <<sigVars, oauthVars, regVars, lockVars, cacheVars, lastResolution>>

\* a caller resolves a key with a resolver it holds
Resolve ==
    /\ \E resolver \in held : lastResolution' = Some(resolver)
    /\ UNCHANGED <<sigVars, oauthVars, regVars, lockVars, cacheVars, fetchers, defaultResolver, held>>

NextResolver ==
    \/ HandlerVerifies
    \/ CreateKeyResolver
    \/ GetDefaultKeyResolver
    \/ Resolve

SpecResolver == InitResolver /\ [][NextResolver]_vars

---------------------------------------------------------------------------
(* redis.service.ts: withLock and runImportWithLock over a redlock lock.   *)
(* The lock of the library is a Redis key that is set when it is absent,   *)
(* with a value unique to the acquisition and a time to live, and that is  *)
(* deleted on release when it still holds that value.  Time is counted in  *)
(* ticks.  An Error is its message; a thrown value that is no Error is     *)
(* marked so.                                                              *)

retryAttempts == 3
T_import_lock == <<"i", "m", "p", "o", "r", "t", ":", "l", "o", "c", "k", ":">>
T_lock == <<"l", "o", "c", "k">>
MSG_failed_to_acquire == <<"F", "a", "i", "l", "e", "d", " ", "t", "o", " ", "a", "c", "q", "u", "i", "r", "e", " ", "l", "o", "c", "k">>
MSG_another_process == <<"A", "n", "o", "t", "h", "e", "r", " ", "p", "r", "o", "c", "e", "s", "s", " ", "i", "s", " ", "a", "l", "r", "e", "a", "d", "y", " ", "r", "u", "n", "n", "i", "n", "g", " ", "t", "h", "i", "s", " ", "i", "m", "p", "o", "r", "t">>
MSG_unknown_error == <<"U", "n", "k", "n", "o", "w", "n", " ", "e", "r", "r", "o", "r">>

\* String.prototype.includes
stringIncludes(s, pattern) == findFrom(s, pattern, 1) > 0

\* the key is held at time now
lockHeld(keys, key, now) ==
    IsSome(prop(keys, key)) /\ now < Get(prop(keys, key)).expires

\* an attempt that takes the key whoever holds it
lockAttempt_always(keys, key, ttl, handle, now) ==
    Some(setProp(keys, key, [handle |-> handle, expires |-> now + ttl]))

\* one attempt of lock.acquire(): None when the key is held, else the keys
\* with this one set to the new value for ttl ticks
lockAttempt(keys, key, ttl, handle, now) ==
    IF lockHeld(keys, key, now) THEN None
    ELSE Some(setProp(keys, key, [handle |-> handle, expires |-> now + ttl]))

\* the keys without key
deleteKey(keys, key) == SelectSeq(keys, LAMBDA entry : entry.k # key)

\* a release that deletes nothing
lockRelease_none(keys, key, handle, now) == keys

\* lock.release(handle): the key is deleted when it still holds the value
lockRelease(keys, key, handle, now) ==
    IF lockHeld(keys, key, now) /\ Get(prop(keys, key)).handle = handle
    THEN deleteKey(keys, key)
    ELSE keys

\* how a promise settled: with a value, or with a thrown Error or other value
resolved(value) == [threw |-> FALSE, value |-> value, isError |-> FALSE]
rejected(message) == [threw |-> TRUE, value |-> message, isError |-> TRUE]
rejectedWith(value) == [threw |-> TRUE, value |-> value, isError |-> FALSE]

\* runImportWithLock from the settling of withLock on (lines 148 to 164)
runImportResult(settled) ==
    IF ~settled.threw
    THEN [acquired |-> TRUE, result |-> Some(settled.value), error |-> None]
    ELSE IF settled.isError /\ stringIncludes(settled.value, T_lock)
    THEN [acquired |-> FALSE, result |-> None, error |-> Some(MSG_another_process)]
    ELSE [acquired |-> TRUE, result |-> None,
          error |-> Some(IF settled.isError THEN settled.value ELSE MSG_unknown_error)]

\* what the caller of op gets when withLock settled
callResult(op, settled) ==
    IF op = "runImportWithLock" THEN runImportResult(settled) ELSE settled

---------------------------------------------------------------------------
(* SpecLock: two processes call withLock and runImportWithLock on one      *)
(* Redis, with functions that return or throw, while time passes.          *)

LockCallers == {"p1", "p2"}
MaxCalls == 1
MaxTime == 2
LockTtl == 1
LockTtls == {LockTtl}
K_customers == <<"c", "u", "s", "t", "o", "m", "e", "r", "s">>
K_job == <<"j", "o", "b">>
V_done == <<"d", "o", "n", "e">>
MSG_import_failed == <<"I", "m", "p", "o", "r", "t", " ", "f", "a", "i", "l", "e", "d">>
MSG_deadlock == <<"D", "e", "a", "d", "l", "o", "c", "k", " ", "f", "o", "u", "n", "d">>
\* how the function passed in settles
Functions ==
    {resolved(V_done), rejected(MSG_import_failed), rejected(MSG_deadlock),
     rejectedWith(V_done)}
\* the calls: withLock(key, ttl, fn) and runImportWithLock(importKey, fn, ttl)
LockCalls ==
    [op : {"withLock"}, arg : {K_job, T_import_lock \o K_customers}, ttl : LockTtls,
     fn : Functions]
    \cup [op : {"runImportWithLock"}, arg : {K_customers}, ttl : LockTtls, fn : Functions]

\* the lock key of a call
lockKeyOf(call) ==
    IF call.op = "runImportWithLock" THEN T_import_lock \o call.arg ELSE call.arg

IdleCaller ==
    [pc |-> "idle", op |-> "none", key |-> <<>>, ttl |-> 0, fn |-> resolved(<<>>),
     attempts |-> 0, handle |-> 0, until |-> 0, ran |-> FALSE, out |-> None,
     calls |-> 0]

InitLock ==
    /\ clock = ClockStart
    /\ registry = BuiltinRegistry
    /\ bIn = None /\ inBase = None /\ outBase = None
    /\ vpc = "idle" /\ vargs = None /\ vlocals = None /\ vresult = None /\ vcalls = <<>>
    /\ signer = None /\ sent = None /\ arrived = None
    /\ mopts = None /\ mpc = "idle" /\ mreq = None /\ reply = None /\ mlog = <<>>
    /\ pIn = None /\ pOut = None
    /\ regLog = <<>>
    /\ fetchers = <<>> /\ defaultResolver = None /\ held = {} /\ lastResolution = None
    /\ rnow = 0 /\ locks = <<>> /\ nextHandle = 1
    /\ callers = [c \in LockCallers |-> IdleCaller]
    /\ cnow = 0 /\ cmax = 0 /\ cache = <<>> /\ accessed = <<>> /\ lastOp = None
    /\ onow = 0 /\ tokenCache = <<>> /\ refreshPromises = <<>> /\ tokenFetches = <<>> /\ clients = <<>>

\* a process calls withLock or runImportWithLock: createLock, then acquire
LockCall(c) ==
    /\ callers[c].pc \in {"idle", "done"} /\ callers[c].calls < MaxCalls
    /\ \E call \in LockCalls :
           callers' = [callers EXCEPT ![c] =
                          [pc |-> "acquiring", op |-> call.op, key |-> lockKeyOf(call),
                           ttl |-> call.ttl, fn |-> call.fn, attempts |-> 0, handle |-> 0,
                           until |-> 0, ran |-> FALSE, out |-> None,
                           calls |-> @.calls + 1]]
    /\ UNCHANGED <<sigVars, oauthVars, regVars, jwksVars, cacheVars, rnow, locks, nextHandle>>

\* lock.acquire() makes an attempt: it gets the key until its time to live
\* is over and withLock calls fn, or it tries again, or after retryAttempts
\* more attempts it throws, which withLock passes on and runImportWithLock
\* catches
LockAcquire(c) ==
    /\ callers[c].pc = "acquiring"
    /\ LET me == callers[c]
           got == lockAttempt(locks, me.key, me.ttl, nextHandle, rnow)
       IN IF IsSome(got)
          THEN /\ locks' = Get(got)
               /\ nextHandle' = nextHandle + 1
               /\ callers' = [callers EXCEPT ![c] =
                                 [@ EXCEPT !.pc = "running", !.handle = nextHandle,
                                           !.until = rnow + me.ttl, !.ran = TRUE]]
          ELSE /\ UNCHANGED <<locks, nextHandle>>
               /\ callers' = [callers EXCEPT ![c] =
                                 IF me.attempts < retryAttempts
                                 THEN [@ EXCEPT !.attempts = @ + 1]
                                 ELSE [@ EXCEPT !.pc = "done",
                                                !.out = Some(callResult(me.op,
                                                            rejected(MSG_failed_to_acquire)))]]
    /\ UNCHANGED <<sigVars, oauthVars, regVars, jwksVars, cacheVars, rnow>>

\* fn settles and the finally block is entered
FnSettles(c) ==
    /\ callers[c].pc = "running"
    /\ callers' = [callers EXCEPT ![c] = [@ EXCEPT !.pc = "releasing"]]
    /\ UNCHANGED <<sigVars, oauthVars, regVars, jwksVars, cacheVars, rnow, locks, nextHandle>>

\* lock.release(handle) settles and the call settles as fn did
LockRelease(c) ==
    /\ callers[c].pc = "releasing"
    /\ LET me == callers[c] IN
       /\ locks' = lockRelease(locks, me.key, me.handle, rnow)
       /\ callers' = [callers EXCEPT ![c] =
                         [@ EXCEPT !.pc = "done", !.out = Some(callResult(me.op, me.fn))]]
    /\ UNCHANGED <<sigVars, oauthVars, regVars, jwksVars, cacheVars, rnow, nextHandle>>

\* a tick passes; Redis drops the keys whose time to live is over
LockTick ==
    /\ rnow < MaxTime
    /\ rnow' = rnow + 1
    /\ locks' = SelectSeq(locks, LAMBDA entry : rnow + 1 < entry.v.expires)
    /\ UNCHANGED <<sigVars, oauthVars, regVars, jwksVars, cacheVars, callers, nextHandle>>

NextLock ==
    \/ \E c \in LockCallers : LockCall(c)
    \/ \E c \in LockCallers : LockAcquire(c)
    \/ \E c \in LockCallers : FnSettles(c)
    \/ \E c \in LockCallers : LockRelease(c)
    \/ LockTick

SpecLock == InitLock /\ [][NextLock]_vars

---------------------------------------------------------------------------
(* utils/cache.ts: the Cache with LRU eviction and a time to live per      *)
(* entry.  The Map is the sequence of its entries in insertion order; an   *)
(* entry that never expires has expiresAt None.                            *)

isExpired(entry, now) == IsSome(entry.expiresAt) /\ now > Get(entry.expiresAt)

\* Cache.get: the Map after the call and the value returned
cacheGet(map, key, now) ==
    LET entry == prop(map, key) IN
    IF ~IsSome(entry) THEN [map |-> map, value |-> None]
    ELSE IF isExpired(Get(entry), now) THEN [map |-> deleteKey(map, key), value |-> None]
    ELSE [map |-> setProp(map, key, [Get(entry) EXCEPT !.lastAccessedAt = now]),
          value |-> Some(Get(entry).value)]

\* Cache.has
cacheHas(map, key, now) ==
    LET entry == prop(map, key) IN
    IF ~IsSome(entry) THEN [map |-> map, value |-> FALSE]
    ELSE IF isExpired(Get(entry), now) THEN [map |-> deleteKey(map, key), value |-> FALSE]
    ELSE [map |-> map, value |-> TRUE]

\* Cache.delete
cacheDelete(map, key) == [map |-> deleteKey(map, key), value |-> IsSome(prop(map, key))]

\* Cache.prune
cachePrune(map, now) ==
    LET kept == SelectSeq(map, LAMBDA e : ~isExpired(e.v, now)) IN
    [map |-> kept, value |-> Len(map) - Len(kept)]

\* Cache.findLruKey: the first key, in insertion order, of the smallest
\* lastAccessedAt
findLruKey(map) ==
    map[CHOOSE i \in 1..Len(map) :
            /\ \A j \in 1..Len(map) : map[i].v.lastAccessedAt <= map[j].v.lastAccessedAt
            /\ \A j \in 1..(i - 1) : map[j].v.lastAccessedAt > map[i].v.lastAccessedAt].k

\* the while loop of evictIfNeeded; findLruKey finds no key in an empty Map
RECURSIVE evictLru(_, _)
evictLru(map, maxEntries) ==
    IF Len(map) >= maxEntries /\ Len(map) > 0
    THEN evictLru(deleteKey(map, findLruKey(map)), maxEntries)
    ELSE map

\* Cache.evictIfNeeded
evictIfNeeded(map, maxEntries, now) ==
    IF Len(map) < maxEntries THEN map
    ELSE evictLru(cachePrune(map, now).map, maxEntries)

\* Cache.set of a cache without defaultTtlMs
cacheSet(map, maxEntries, key, value, ttlMs, now) ==
    LET expiresAt == IF IsSome(ttlMs) THEN Some(now + Get(ttlMs)) ELSE None
        without == IF IsSome(prop(map, key)) THEN deleteKey(map, key) ELSE map
    IN Append(evictIfNeeded(without, maxEntries, now),
              [k |-> key,
               v |-> [value |-> value, expiresAt |-> expiresAt, createdAt |-> now,
                      lastAccessedAt |-> now]])

---------------------------------------------------------------------------
(* SpecCache: set, get, has, delete and prune on a cache created with some *)
(* maxEntries, while the clock of the process goes on or stands still      *)
(* between two operations.                                                 *)

MaxEntries == 2
MaxCacheTime == 2
CacheKeys == {"a", "b", "c"}
CacheTtls == {None, Some(1)}

\* the keys of the Map that the operation left in it, in the order of their
\* last get or set, with key last when the operation was a get or set of it
touched(order, map, key, hit) ==
    LET present(k) == IsSome(prop(map, k))
        others == SelectSeq(order, LAMBDA k : present(k) /\ (hit => k # key))
    IN IF hit /\ present(key) THEN Append(others, key) ELSE others

InitCache ==
    /\ clock = ClockStart
    /\ registry = BuiltinRegistry
    /\ bIn = None /\ inBase = None /\ outBase = None
    /\ vpc = "idle" /\ vargs = None /\ vlocals = None /\ vresult = None /\ vcalls = <<>>
    /\ signer = None /\ sent = None /\ arrived = None
    /\ mopts = None /\ mpc = "idle" /\ mreq = None /\ reply = None /\ mlog = <<>>
    /\ pIn = None /\ pOut = None
    /\ regLog = <<>>
    /\ fetchers = <<>> /\ defaultResolver = None /\ held = {} /\ lastResolution = None
    /\ rnow = 0 /\ locks = <<>> /\ callers = <<>> /\ nextHandle = 1
    /\ cnow = 0 /\ cache = <<>> /\ accessed = <<>> /\ lastOp = None
    /\ onow = 0 /\ tokenCache = <<>> /\ refreshPromises = <<>> /\ tokenFetches = <<>> /\ clients = <<>>
    /\ cmax \in 0..MaxEntries

CacheSet ==
    /\ \E key \in CacheKeys, ttlMs \in CacheTtls :
           /\ cache' = cacheSet(cache, cmax, key, "v", ttlMs, cnow)
           /\ accessed' = touched(accessed, cache', key, TRUE)
           /\ lastOp' = Some([op |-> "set", key |-> key])
    /\ UNCHANGED <<sigVars, oauthVars, regVars, jwksVars, lockVars, cnow, cmax>>

CacheGet ==
    /\ \E key \in CacheKeys :
           /\ cache' = cacheGet(cache, key, cnow).map
           /\ accessed' = touched(accessed, cache', key, TRUE)
           /\ lastOp' = Some([op |-> "get", key |-> key])
    /\ UNCHANGED <<sigVars, oauthVars, regVars, jwksVars, lockVars, cnow, cmax>>

CacheHas ==
    /\ \E key \in CacheKeys :
           /\ cache' = cacheHas(cache, key, cnow).map
           /\ accessed' = touched(accessed, cache', key, FALSE)
           /\ lastOp' = Some([op |-> "has", key |-> key])
    /\ UNCHANGED <<sigVars, oauthVars, regVars, jwksVars, lockVars, cnow, cmax>>

CacheDelete ==
    /\ \E key \in CacheKeys :
           /\ cache' = cacheDelete(cache, key).map
           /\ accessed' = touched(accessed, cache', key, FALSE)
           /\ lastOp' = Some([op |-> "delete", key |-> key])
    /\ UNCHANGED <<sigVars, oauthVars, regVars, jwksVars, lockVars, cnow, cmax>>

CachePrune ==
    /\ cache' = cachePrune(cache, cnow).map
    /\ accessed' = touched(accessed, cache', "a", FALSE)
    /\ lastOp' = Some([op |-> "prune", key |-> "a"])
    /\ UNCHANGED <<sigVars, oauthVars, regVars, jwksVars, lockVars, cnow, cmax>>

\* a millisecond passes
CacheTick ==
    /\ cnow < MaxCacheTime
    /\ cnow' = cnow + 1
    /\ lastOp' = Some([op |-> "tick", key |-> "a"])
    /\ UNCHANGED <<sigVars, oauthVars, regVars, jwksVars, lockVars, cmax, cache, accessed>>

NextCache ==
    \/ CacheSet
    \/ CacheGet
    \/ CacheHas
    \/ CacheDelete
    \/ CachePrune
    \/ CacheTick

SpecCache == InitCache /\ [][NextCache]_vars

---------------------------------------------------------------------------
(* services/oauth2: TokenCache, the token requests and OAuth2Service       *)

T_client_credentials == <<"c", "l", "i", "e", "n", "t", "_", "c", "r", "e", "d", "e", "n", "t", "i", "a", "l", "s">>
T_token_exchange == <<"t", "o", "k", "e", "n", "_", "e", "x", "c", "h", "a", "n", "g", "e">>
T_Bearer == <<"B", "e", "a", "r", "e", "r", " ">>
H_Authorization == <<"A", "u", "t", "h", "o", "r", "i", "z", "a", "t", "i", "o", "n">>
C_authorization == toLowerCase(H_Authorization)
E_provider_not_found == <<"p", "r", "o", "v", "i", "d", "e", "r", "_", "n", "o", "t", "_", "f", "o", "u", "n", "d">>
E_token_fetch_failed == <<"t", "o", "k", "e", "n", "_", "f", "e", "t", "c", "h", "_", "f", "a", "i", "l", "e", "d">>
HexDigits == Digits \o <<"a", "b", "c", "d", "e", "f">>

\* Number.prototype.toString(16) of a non-negative integer
RECURSIVE toString16(_)
toString16(n) ==
    IF n < 16 THEN <<HexDigits[n + 1]>>
    ELSE toString16(n \div 16) \o <<HexDigits[(n % 16) + 1]>>

\* a 32-bit integer is kept as its two 16-bit halves, so that no step of
\* the arithmetic leaves the integers of the model checker
Half == 65536
\* hash = ((hash << 5) - hash) + char; hash = hash & hash: 31 * hash + char
\* in 32 bits
hashStep(hash, char) ==
    LET lo == 31 * hash.lo + char
        hi == 31 * hash.hi + (lo \div Half)
    IN [hi |-> hi % Half, lo |-> lo % Half]

RECURSIVE hashLoop(_, _)
hashLoop(str, hash) ==
    IF str = <<>> THEN hash
    ELSE hashLoop(Tail(str), hashStep(hash, charCodeAt(Head(str))))

\* Math.abs of the signed 32-bit integer: the two's complement is undone
\* when the sign bit is set
mathAbs(hash) ==
    IF hash.hi < Half \div 2 THEN hash
    ELSE [hi |-> (Half - 1 - hash.hi + (IF hash.lo = 0 THEN 1 ELSE 0)) % Half,
          lo |-> (Half - hash.lo) % Half]

\* toString(16) of a number below 2^32 given by its halves
halvesToString16(n) ==
    IF n.hi = 0 THEN toString16(n.lo)
    ELSE LET low == toString16(n.lo) IN
         toString16(n.hi) \o [i \in 1..(4 - Len(low)) |-> "0"] \o low

\* OAuth2Service.hashString
hashString(str) == halvesToString16(mathAbs(hashLoop(str, [hi |-> 0, lo |-> 0])))

\* String.prototype.slice(0, end)
sliceTo(s, end) == SubSeq(s, 1, IF Len(s) < end THEN Len(s) ELSE end)

\* TokenCache.buildKey: subject is None when the argument is left out
buildKey(provider, flow, subject) ==
    IF IsSome(subject) /\ Get(subject) # <<>>
    THEN provider \o <<":">> \o flow \o <<":">> \o Get(subject)
    ELSE provider \o <<":">> \o flow

\* OAuth2Service.buildCacheKey: tokenExchange is None or the options object
buildCacheKey(provider, tokenExchange) ==
    IF IsSome(tokenExchange)
    THEN LET subjectHash == sliceTo(hashString(Get(tokenExchange).subjectToken), 16)
         IN buildKey(provider, T_token_exchange, Some(subjectHash))
    ELSE buildKey(provider, T_client_credentials, None)

\* TokenCache.needsRefresh and TokenCache.isExpired
needsRefresh(token, now) == now > token.refreshAt
tokenIsExpired(token, now) == now > token.expiresAt

\* TokenCache.clear on one of its two Maps
clearMap(map, provider) ==
    IF ~IsSome(provider) \/ Get(provider) = <<>> THEN <<>>
    ELSE SelectSeq(map, LAMBDA entry : ~startsWith(entry.k, Get(provider) \o <<":">>))

\* tokenResponseToCachedToken; the lifetimes of the model are whole seconds,
\* so that three quarters of expiresInMs is an integer
tokenResponseToCachedToken(response, refreshBufferSeconds, now) ==
    LET expiresInMs == response.expires_in * 1000
        expiresAt == now + expiresInMs
        early == now + (expiresInMs * 3) \div 4
        buffered == expiresAt - refreshBufferSeconds * 1000
    IN [accessToken |-> response.access_token,
        expiresAt |-> expiresAt,
        refreshAt |-> IF early < buffered THEN early ELSE buffered]

\* what a token request is for, as doFetchToken is called with it: a promise
\* that is pending.  key and background say who made it: the cache key its
\* maker passes to setRefreshPromise, and whether refreshTokenInBackground
\* made it; handled is how far the handlers of a background refresh are.
doFetchToken(svc, provider, tokenExchange, cacheKey, background) ==
    [svc EXCEPT !.fetches =
        Append(@, [provider |-> provider, tokenExchange |-> tokenExchange,
                   key |-> cacheKey, background |-> background,
                   state |-> "pending", token |-> None, handled |-> "no"])]

\* TokenCache.setRefreshPromise and TokenCache.clearRefreshPromise
setRefreshPromise(svc, key, promise) ==
    [svc EXCEPT !.refreshPromises = setProp(@, key, promise)]
clearRefreshPromise(map, key) == deleteKey(map, key)

\* how the synchronous part of getToken ends: it throws, it returns the
\* cached accessToken, or it awaits a token request (own: the one it made)
threw(code) == [kind |-> "throw", token |-> code, fetch |-> 0, own |-> FALSE]
cachedToken(accessToken) == [kind |-> "hit", token |-> accessToken, fetch |-> 0, own |-> FALSE]
awaits(promise, own) == [kind |-> "await", token |-> <<>>, fetch |-> promise, own |-> own]

\* OAuth2Service.refreshTokenInBackground, up to the handlers it attaches
refreshTokenInBackground(svc, provider, cacheKey, tokenExchange) ==
    IF IsSome(prop(svc.refreshPromises, cacheKey)) THEN svc
    ELSE LET made == doFetchToken(svc, provider, tokenExchange, cacheKey, TRUE)
         IN setRefreshPromise(made, cacheKey, Len(made.fetches))

\* OAuth2Service.fetchAndCacheToken, up to its await
fetchAndCacheToken(svc, provider, cacheKey, tokenExchange) ==
    LET existingPromise == prop(svc.refreshPromises, cacheKey) IN
    IF IsSome(existingPromise)
    THEN [svc |-> svc, end |-> awaits(Get(existingPromise), FALSE)]
    ELSE LET made == doFetchToken(svc, provider, tokenExchange, cacheKey, FALSE)
         IN [svc |-> setRefreshPromise(made, cacheKey, Len(made.fetches)),
             end |-> awaits(Len(made.fetches), TRUE)]

\* OAuth2Service.getToken, up to its await; providers is the set of the
\* configured provider names
getToken(svc, providers, provider, tokenExchange, now) ==
    IF provider \notin providers THEN [svc |-> svc, end |-> threw(E_provider_not_found)]
    ELSE LET cacheKey == buildCacheKey(provider, tokenExchange)
             cached == prop(svc.cache, cacheKey)
         IN IF IsSome(cached) /\ ~tokenIsExpired(Get(cached), now)
            THEN [svc |-> IF needsRefresh(Get(cached), now)
                          THEN refreshTokenInBackground(svc, provider, cacheKey, tokenExchange)
                          ELSE svc,
                  end |-> cachedToken(Get(cached).accessToken)]
            ELSE fetchAndCacheToken(svc, provider, cacheKey, tokenExchange)

\* OAuth2Service.fetch: the headers of the request it sends with a token.
\* headers are the caller's headers for the first request and the headers
\* of the first request for the retry; no method and no body are given.
requestHeadersWith(headers, accessToken, requestSigner, url, now) ==
    LET requestHeaders == setProp(headers, H_Authorization, T_Bearer \o accessToken) IN
    IF IsSome(requestSigner)
    THEN sign(Get(requestSigner),
              [method |-> M_GET, url |-> url, headers |-> requestHeaders, body |-> None],
              now \div 1000)
    ELSE requestHeaders

\* a fetch that gives up on a 401
shouldRetry_never(status) == FALSE

\* OAuth2Service.fetch: response.status === 401
shouldRetry(status) == status = 401

---------------------------------------------------------------------------
(* SpecOAuth: two callers of one OAuth2Service, the token endpoint and the *)
(* protected API                                                           *)

P_api == <<"a", "p", "i">>
P_unknown == <<"x">>
S_Aa == <<"A", "a">>
S_BB == <<"B", "B">>
S_Ab == <<"A", "b">>
\* new OAuth2Service({api: config}, logger, 1)
Providers == {P_api}
refreshBufferSeconds == 1
\* expires_in of every token response, in seconds
ExpiresIn == 1
MaxOAuthCalls == 1
MaxOAuthTicks == 2
OAuthClients == {"u1", "u2"}
SubjectTokens == {S_Aa, S_BB, S_Ab}
TokenExchanges == {None} \cup {Some([subjectToken |-> s]) : s \in SubjectTokens}
TargetStatuses == {200, 401}
\* a signer that binds the Authorization header
OAuthSigner ==
    Get(createSigner(BuiltinRegistry,
                     [keyId |-> K_k1, privateKey |-> "A", algorithm |-> A_rsa_pss_sha512,
                      components |-> <<C_method, C_authorization>>]))
\* the calls of the two callers: u1 goes through fetch, u2 calls getToken
OAuthCalls ==
    [u1 |-> {[op |-> "fetch", provider |-> P_api, tokenExchange |-> tokenExchange,
              signer |-> requestSigner] :
                 tokenExchange \in {None, Some([subjectToken |-> S_Aa])},
                 requestSigner \in {None, Some(OAuthSigner)}},
     u2 |-> {[op |-> "getToken", provider |-> P_api, tokenExchange |-> tokenExchange,
              signer |-> None] : tokenExchange \in TokenExchanges}
            \cup {[op |-> "getToken", provider |-> P_unknown, tokenExchange |-> None,
                   signer |-> None]}]

\* the access_token of the response to the n-th token request
accessTokenOf(n) == <<"t">> \o numberToString(n)

\* a caller: pc is "idle", "awaitToken" (in getToken), "awaitResponse" (of
\* the first request), "awaitRetry" (of the second) or "done"; tokens are
\* the tokens its getToken calls returned, sends the header maps of the
\* requests it sent and statuses the statuses of the responses, in order
IdleClient ==
    [pc |-> "idle", call |-> None, fetch |-> 0, own |-> FALSE, retrying |-> FALSE,
     tokens |-> <<>>, sends |-> <<>>, statuses |-> <<>>, out |-> None, calls |-> 0]

Svc == [cache |-> tokenCache, refreshPromises |-> refreshPromises, fetches |-> tokenFetches]

\* the caller once a getToken of its call has returned accessToken
withToken(client, accessToken, now) ==
    IF client.call.op = "getToken"
    THEN [client EXCEPT !.pc = "done", !.tokens = Append(@, accessToken),
                        !.out = Some(resolved(accessToken))]
    ELSE LET before == IF client.retrying THEN client.sends[Len(client.sends)] ELSE <<>>
         IN [client EXCEPT
                !.pc = IF client.retrying THEN "awaitRetry" ELSE "awaitResponse",
                !.tokens = Append(@, accessToken),
                !.sends = Append(@, requestHeadersWith(before, accessToken,
                                                       client.call.signer, URL_p, now))]

\* the caller once a getToken of its call has thrown
withError(client, code) == [client EXCEPT !.pc = "done", !.out = Some(rejected(code))]

\* the caller after the synchronous part of a getToken of its call
afterGetToken(client, end, now) ==
    CASE end.kind = "throw" -> withError(client, end.token)
      [] end.kind = "hit" -> withToken(client, end.token, now)
      [] OTHER -> [client EXCEPT !.pc = "awaitToken", !.fetch = end.fetch, !.own = end.own]

\* a token request has settled and a handler or an await on it has not run
\* yet: these run before the event loop takes the next response
ReactionsPending ==
    \/ \E c \in OAuthClients :
           /\ clients[c].pc = "awaitToken"
           /\ tokenFetches[clients[c].fetch].state # "pending"
    \/ \E n \in 1..Len(tokenFetches) :
           /\ tokenFetches[n].background
           /\ tokenFetches[n].state # "pending" /\ tokenFetches[n].handled # "finally"

InitOAuth ==
    /\ clock = ClockStart
    /\ registry = BuiltinRegistry
    /\ bIn = None /\ inBase = None /\ outBase = None
    /\ vpc = "idle" /\ vargs = None /\ vlocals = None /\ vresult = None /\ vcalls = <<>>
    /\ signer = None /\ sent = None /\ arrived = None
    /\ mopts = None /\ mpc = "idle" /\ mreq = None /\ reply = None /\ mlog = <<>>
    /\ pIn = None /\ pOut = None
    /\ regLog = <<>>
    /\ fetchers = <<>> /\ defaultResolver = None /\ held = {} /\ lastResolution = None
    /\ rnow = 0 /\ locks = <<>> /\ callers = <<>> /\ nextHandle = 1
    /\ cnow = 0 /\ cmax = 0 /\ cache = <<>> /\ accessed = <<>> /\ lastOp = None
    /\ onow = 0 /\ tokenCache = <<>> /\ refreshPromises = <<>> /\ tokenFetches = <<>>
    /\ clients = [c \in OAuthClients |-> IdleClient]

\* service.getToken(...) or service.fetch(...): the call, up to its first await
OAuthCall(c) ==
    /\ clients[c].pc \in {"idle", "done"}
    /\ clients[c].calls < MaxOAuthCalls
    /\ \E call \in OAuthCalls[c] :
           LET got == getToken(Svc, Providers, call.provider, call.tokenExchange, onow)
               client == [IdleClient EXCEPT !.call = call, !.calls = clients[c].calls + 1]
           IN /\ tokenCache' = got.svc.cache
              /\ refreshPromises' = got.svc.refreshPromises
              /\ tokenFetches' = got.svc.fetches
              /\ clients' = [clients EXCEPT ![c] = afterGetToken(client, got.end, onow)]
    /\ UNCHANGED <<sigVars, regVars, jwksVars, lockVars, cacheVars, onow>>

\* service.clearCache(provider)
ClearCache ==
    /\ \E provider \in {None, Some(P_api)} :
           /\ tokenCache' = clearMap(tokenCache, provider)
           /\ refreshPromises' = clearMap(refreshPromises, provider)
    /\ UNCHANGED <<sigVars, regVars, jwksVars, lockVars, cacheVars, onow, tokenFetches, clients>>

\* the token endpoint answers a token request: the promise of doFetchToken
\* settles
TokenSettles ==
    /\ ~ReactionsPending
    /\ \E n \in 1..Len(tokenFetches), ok \in BOOLEAN :
           /\ tokenFetches[n].state = "pending"
           /\ tokenFetches' =
                  [tokenFetches EXCEPT
                      ![n].state = IF ok THEN "fulfilled" ELSE "rejected",
                      ![n].token =
                          IF ok
                          THEN Some(tokenResponseToCachedToken(
                                        [access_token |-> accessTokenOf(n),
                                         expires_in |-> ExpiresIn],
                                        refreshBufferSeconds, onow))
                          ELSE None]
    /\ UNCHANGED <<sigVars, regVars, jwksVars, lockVars, cacheVars,
                   onow, tokenCache, refreshPromises, clients>>

\* fetchAndCacheToken resumes after await fetchPromise: the try block and
\* its finally
OwnFetchResumes(c) ==
    LET client == clients[c] IN
    /\ client.pc = "awaitToken" /\ client.own
    /\ tokenFetches[client.fetch].state # "pending"
    /\ LET promise == tokenFetches[client.fetch]
           cacheKey == buildCacheKey(client.call.provider, client.call.tokenExchange)
       IN /\ refreshPromises' = clearRefreshPromise(refreshPromises, cacheKey)
          /\ IF promise.state = "fulfilled"
             THEN /\ tokenCache' = setProp(tokenCache, cacheKey, Get(promise.token))
                  /\ clients' = [clients EXCEPT
                                    ![c] = withToken(client, Get(promise.token).accessToken, onow)]
             ELSE /\ tokenCache' = tokenCache
                  /\ clients' = [clients EXCEPT ![c] = withError(client, E_token_fetch_failed)]
    /\ UNCHANGED <<sigVars, regVars, jwksVars, lockVars, cacheVars, onow, tokenFetches>>

\* fetchAndCacheToken resumes after await existingPromise
ExistingFetchResumes(c) ==
    LET client == clients[c] IN
    /\ client.pc = "awaitToken" /\ ~client.own
    /\ tokenFetches[client.fetch].state # "pending"
    /\ LET promise == tokenFetches[client.fetch] IN
       clients' = [clients EXCEPT
                      ![c] = IF promise.state = "fulfilled"
                             THEN withToken(client, Get(promise.token).accessToken, onow)
                             ELSE withError(client, E_token_fetch_failed)]
    /\ UNCHANGED <<sigVars, regVars, jwksVars, lockVars, cacheVars,
                   onow, tokenCache, refreshPromises, tokenFetches>>

\* refreshTokenInBackground: the then handler, which a rejection passes by
RefreshThen ==
    /\ \E n \in 1..Len(tokenFetches) :
           /\ tokenFetches[n].background
           /\ tokenFetches[n].state # "pending" /\ tokenFetches[n].handled = "no"
           /\ tokenCache' = IF tokenFetches[n].state = "fulfilled"
                            THEN setProp(tokenCache, tokenFetches[n].key,
                                         Get(tokenFetches[n].token))
                            ELSE tokenCache
           /\ tokenFetches' = [tokenFetches EXCEPT ![n].handled = "then"]
    /\ UNCHANGED <<sigVars, regVars, jwksVars, lockVars, cacheVars,
                   onow, refreshPromises, clients>>

\* refreshTokenInBackground: the finally handler
RefreshFinally ==
    /\ \E n \in 1..Len(tokenFetches) :
           /\ tokenFetches[n].background /\ tokenFetches[n].handled = "then"
           /\ refreshPromises' = clearRefreshPromise(refreshPromises, tokenFetches[n].key)
           /\ tokenFetches' = [tokenFetches EXCEPT ![n].handled = "finally"]
    /\ UNCHANGED <<sigVars, regVars, jwksVars, lockVars, cacheVars,
                   onow, tokenCache, clients>>

\* the protected API answers the first request: on a 401 fetch deletes the
\* cached token and calls getToken again, else it returns the response
FirstResponse(c) ==
    LET client == clients[c] IN
    /\ ~ReactionsPending
    /\ client.pc = "awaitResponse"
    /\ \E status \in TargetStatuses :
           LET answered == [client EXCEPT !.statuses = Append(@, status)] IN
           IF shouldRetry(status)
           THEN LET cacheKey == buildCacheKey(client.call.provider, client.call.tokenExchange)
                    deleted == [Svc EXCEPT !.cache = deleteKey(@, cacheKey)]
                    got == getToken(deleted, Providers, client.call.provider,
                                    client.call.tokenExchange, onow)
                IN /\ tokenCache' = got.svc.cache
                   /\ refreshPromises' = got.svc.refreshPromises
                   /\ tokenFetches' = got.svc.fetches
                   /\ clients' = [clients EXCEPT
                                     ![c] = afterGetToken([answered EXCEPT !.retrying = TRUE],
                                                          got.end, onow)]
           ELSE /\ clients' = [clients EXCEPT
                                  ![c] = [answered EXCEPT
                                             !.pc = "done",
                                             !.out = Some(resolved([status |-> status,
                                                                    request |-> 1]))]]
                /\ UNCHANGED <<tokenCache, refreshPromises, tokenFetches>>
    /\ UNCHANGED <<sigVars, regVars, jwksVars, lockVars, cacheVars, onow>>

\* the protected API answers the second request: fetch returns the response
SecondResponse(c) ==
    LET client == clients[c] IN
    /\ ~ReactionsPending
    /\ client.pc = "awaitRetry"
    /\ \E status \in TargetStatuses :
           clients' = [clients EXCEPT
                          ![c] = [client EXCEPT
                                     !.pc = "done",
                                     !.statuses = Append(@, status),
                                     !.out = Some(resolved([status |-> status,
                                                            request |-> 2]))]]
    /\ UNCHANGED <<sigVars, regVars, jwksVars, lockVars, cacheVars,
                   onow, tokenCache, refreshPromises, tokenFetches>>

\* a second passes
OAuthTick ==
    /\ onow < MaxOAuthTicks * 1000
    /\ onow' = onow + 1000
    /\ UNCHANGED <<sigVars, regVars, jwksVars, lockVars, cacheVars,
                   tokenCache, refreshPromises, tokenFetches, clients>>

NextOAuth ==
    \/ \E c \in OAuthClients : OAuthCall(c)
    \/ ClearCache
    \/ TokenSettles
    \/ \E c \in OAuthClients : OwnFetchResumes(c)
    \/ \E c \in OAuthClients : ExistingFetchResumes(c)
    \/ RefreshThen
    \/ RefreshFinally
    \/ \E c \in OAuthClients : FirstResponse(c)
    \/ \E c \in OAuthClients : SecondResponse(c)
    \/ OAuthTick

SpecOAuth == InitOAuth /\ [][NextOAuth]_vars

---------------------------------------------------------------------------
(* Claims about the signature base (SpecBase)                              *)

\* the run's received request is the one the description is sent as
BaseEquivalent ==
    baseRequest(bIn) = Receive(bIn.method, bIn.url, bIn.headers)

\* C9: builder symmetry. For every component list, keyId, algorithm and
\* created value, buildSignatureBase on the received request and the Signer's
\* base construction on the equivalent description return the same string,
\* for the derived components and for header components under any spelling
\* of the header name in the caller's header map.
C9_BuilderSymmetry ==
    (IsSome(inBase) /\ IsSome(outBase) /\ BaseEquivalent
        /\ bIn.expires = None /\ bIn.nonce = None)
    => Get(inBase) = Get(outBase)

\* the positions of the declared components whose value resolves, in order
ResolvedPositions(request, components) ==
    LET resolves(i) == IsSome(extractComponent(request, components[i]))
        count == Cardinality({i \in 1..Len(components) : resolves(i)})
    IN [j \in 1..count |->
           CHOOSE i \in 1..Len(components) :
               resolves(i) /\ Cardinality({k \in 1..i : resolves(k)}) = j]

\* the parameters of the last line, in the fixed order, present ones only
RECURSIVE PresentParams(_)
PresentParams(params) ==
    IF Len(params) = 0 THEN <<>>
    ELSE (IF Head(params).present THEN Head(params).text ELSE <<>>)
         \o PresentParams(Tail(params))

ExpectedParamsLine(sigInput) ==
    <<"\"", "@", "s", "i", "g", "n", "a", "t", "u", "r", "e", "-", "p", "a", "r", "a", "m", "s", "\"", ":", " ", "(">>
    \o join([i \in 1..Len(sigInput.components) |-> <<"\"">> \o sigInput.components[i] \o <<"\"">>], <<" ">>)
    \o <<")">>
    \o PresentParams(<<
         [present |-> TRUE,
          text |-> <<";", "k", "e", "y", "i", "d", "=", "\"">> \o sigInput.keyid \o <<"\"">>],
         [present |-> TRUE,
          text |-> <<";", "a", "l", "g", "=", "\"">> \o sigInput.alg \o <<"\"">>],
         [present |-> IsSome(sigInput.created),
          text |-> <<";", "c", "r", "e", "a", "t", "e", "d", "=">>
                   \o (IF IsSome(sigInput.created) THEN numberToString(Get(sigInput.created)) ELSE <<>>)],
         [present |-> IsSome(sigInput.expires),
          text |-> <<";", "e", "x", "p", "i", "r", "e", "s", "=">>
                   \o (IF IsSome(sigInput.expires) THEN numberToString(Get(sigInput.expires)) ELSE <<>>)],
         [present |-> IsSome(sigInput.nonce),
          text |-> <<";", "n", "o", "n", "c", "e", "=", "\"">>
                   \o (IF IsSome(sigInput.nonce) THEN Get(sigInput.nonce) ELSE <<>>) \o <<"\"">>] >>)

\* C10: signature base structure. The base is one line "<identifier>": <value>
\* for each declared component whose value resolves, in declared order with
\* duplicates kept and nothing for a component without a value, followed by
\* exactly one final "@signature-params" line that lists all declared
\* components and then keyid, alg, created, expires, nonce in that order,
\* absent optional parameters omitted.
C10_BaseStructure ==
    IsSome(inBase) =>
        LET request == baseRequest(bIn)
            sigInput == baseSigInput(bIn)
            lines == split(Get(inBase), "\n")
            pos == ResolvedPositions(request, sigInput.components)
        IN /\ Len(lines) = Len(pos) + 1
           /\ \A j \in 1..Len(pos) :
                  lines[j] = <<"\"">> \o sigInput.components[pos[j]] \o <<"\"", ":", " ">>
                             \o Get(extractComponent(request, sigInput.components[pos[j]]))
           /\ lines[Len(lines)] = ExpectedParamsLine(sigInput)

\* a base was built for a list with a repeated and an unresolvable component,
\* the header present, and all three optional parameters given
C10_Witness ==
    /\ IsSome(inBase)
    /\ bIn.components = <<C_x_id, C_status, C_method, C_x_id>>
    /\ IsSome(extractComponent(baseRequest(bIn), C_x_id))
    /\ ~IsSome(extractComponent(baseRequest(bIn), C_status))
    /\ IsSome(bIn.created) /\ IsSome(bIn.expires) /\ IsSome(bIn.nonce)
    /\ Len(split(Get(inBase), "\n")) = 4

---------------------------------------------------------------------------
(* Claims about verifySignature (SpecVerify)                               *)

\* a call has ended
Ended == vpc = "returned" /\ IsSome(vresult)
\* the error code of an ended call, None on success
EndError == Get(vresult).value.error
\* the call's signature input and options
SigIn == Get(vargs).sigInput
Opts == Get(vargs).options

\* The conditions of the six checks, each stated on the call's arguments, the
\* algorithm found at the call and the clock readings it made.
AlgUnknown == ~IsSome(Get(vlocals).algo)
AlgNotAllowed ==
    /\ IsSome(Opts.algorithms)
    /\ \A i \in 1..Len(Get(Opts.algorithms)) : Get(Opts.algorithms)[i] # SigIn.alg
EffectiveMaxAge == IF Opts.maxAge = None THEN 300 ELSE Get(Opts.maxAge)
Age == Get(vlocals).now1 - Get(SigIn.created)
TooOld == IsSome(SigIn.created) /\ Age > EffectiveMaxAge
FromFuture == IsSome(SigIn.created) /\ Age < -60
PastExpiry == IsSome(SigIn.expires) /\ Get(vlocals).now2 > Get(SigIn.expires)
ResolverFails == Get(vargs).keyResolver.kind = "rejects"
\* what algo.verify answers when it is given the resolver's key
VerifyAnswer ==
    LET args == Get(vargs) IN
    algoVerify(Get(Get(vlocals).algo), args.keyResolver.key, args.signature.value,
               encode(buildSignatureBase(args.request, args.sigInput)))

\* C3: the checks run in the order algorithm known, algorithm allowed,
\* created freshness, explicit expiry, key resolution, cryptographic
\* verification; the first that fails decides the error, and neither the key
\* resolver nor the algorithm's verify is invoked after an earlier failure.
C3_CheckOrder ==
    /\ IsSome(vargs) /\ IsSome(vlocals) =>
          /\ (Len(vcalls) >= 1 =>
                 /\ vcalls[1] = "resolve"
                 /\ ~AlgUnknown /\ ~AlgNotAllowed /\ ~TooOld /\ ~FromFuture /\ ~PastExpiry)
          /\ (Len(vcalls) >= 2 => vcalls = <<"resolve", "verify">> /\ ~ResolverFails)
    /\ Ended =>
          IF AlgUnknown THEN EndError = Some("unsupported_algorithm") /\ vcalls = <<>>
          ELSE IF AlgNotAllowed THEN EndError = Some("algorithm_not_allowed") /\ vcalls = <<>>
          ELSE IF TooOld THEN EndError = Some("signature_expired") /\ vcalls = <<>>
          ELSE IF FromFuture THEN EndError = Some("signature_future") /\ vcalls = <<>>
          ELSE IF PastExpiry THEN EndError = Some("signature_expired") /\ vcalls = <<>>
          ELSE IF ResolverFails THEN EndError = Some("key_not_found") /\ vcalls = <<"resolve">>
          ELSE /\ vcalls = <<"resolve", "verify">>
               /\ EndError \in {None, Some("invalid_signature"), Some("verification_failed")}

\* a call in which the allow-list, the expiry and the resolver would all fail
\* ended on the allow-list, with no collaborator invoked
C3_Witness ==
    /\ Ended
    /\ ~AlgUnknown /\ AlgNotAllowed /\ PastExpiry /\ ResolverFails
    /\ EndError = Some("algorithm_not_allowed")
    /\ vcalls = <<>>

ErrorCodes ==
    {"unsupported_algorithm", "algorithm_not_allowed", "signature_expired",
     "signature_future", "key_not_found", "invalid_signature", "verification_failed"}

\* C4: every call returns a VerificationResult and never throws: valid with
\* keyId, algorithm, components and created echoed from sigInput and no error,
\* or invalid with exactly one error code of the taxonomy and no success field.
C4_ResultShape ==
    IsSome(vresult) =>
        /\ ~Get(vresult).threw
        /\ LET r == Get(vresult).value IN
           IF r.valid
           THEN /\ r.keyId = Some(SigIn.keyid)
                /\ r.algorithm = Some(SigIn.alg)
                /\ r.components = Some(SigIn.components)
                /\ r.created = SigIn.created
                /\ r.error = None
           ELSE /\ IsSome(r.error) /\ Get(r.error) \in ErrorCodes
                /\ r.keyId = None /\ r.algorithm = None
                /\ r.components = None /\ r.created = None

\* a call whose algorithm threw inside verify ended by returning a result
C4_Witness ==
    /\ Ended
    /\ Len(vcalls) = 2
    /\ Get(Get(vlocals).algo).impl = "throws"
    /\ ~Get(vresult).threw
    /\ ~Get(vresult).value.valid

\* every check other than created freshness passes
OthersPassForFreshness ==
    /\ ~AlgUnknown /\ ~AlgNotAllowed /\ ~PastExpiry /\ ~ResolverFails
    /\ VerifyAnswer = "true"

\* C5: freshness window. With created present and every other check passing,
\* the call ends signature_expired exactly when age > maxAge (default 300),
\* signature_future exactly when age < -60, and valid when -60 <= age <= maxAge.
C5_FreshnessWindow ==
    (Ended /\ IsSome(SigIn.created) /\ OthersPassForFreshness) =>
        /\ (EndError = Some("signature_expired")) <=> (Age > EffectiveMaxAge)
        /\ (EndError = Some("signature_future")) <=> (Age < -60)
        /\ (Age >= -60 /\ Age <= EffectiveMaxAge) => Get(vresult).value.valid
        /\ (Opts.maxAge = None /\ Age = 301) => EndError = Some("signature_expired")
        /\ (Opts.maxAge = None /\ Age = 299) => Get(vresult).value.valid
        /\ (Age = -61) => EndError = Some("signature_future")
        /\ (Age = -30) => Get(vresult).value.valid

\* with the default maxAge a signature created 301 seconds ago was rejected
C5_Witness ==
    /\ Ended /\ IsSome(SigIn.created) /\ OthersPassForFreshness
    /\ Opts.maxAge = None
    /\ Age = 301
    /\ EndError = Some("signature_expired")

\* C6: explicit expiry. With expires present and now > expires the call ends
\* signature_expired whether created is absent or inside the freshness window;
\* with now <= expires the expiry check does not fail.
C6_ExplicitExpiry ==
    (Ended /\ IsSome(SigIn.expires) /\ ~AlgUnknown /\ ~AlgNotAllowed
        /\ ~TooOld /\ ~FromFuture) =>
        /\ (Get(vlocals).now2 > Get(SigIn.expires)) => EndError = Some("signature_expired")
        /\ (Get(vlocals).now2 <= Get(SigIn.expires)) => EndError # Some("signature_expired")

\* a signature with created inside the window ended signature_expired on its
\* expires alone
C6_Witness ==
    /\ Ended /\ IsSome(SigIn.expires) /\ IsSome(SigIn.created)
    /\ ~AlgUnknown /\ ~AlgNotAllowed /\ ~TooOld /\ ~FromFuture
    /\ Get(vlocals).now2 > Get(SigIn.expires)
    /\ EndError = Some("signature_expired")

\* C7: allow-list. With a list supplied, a registered alg outside it ends
\* algorithm_not_allowed; with no list every registered algorithm passes the
\* allow check; an unregistered alg ends unsupported_algorithm whether or not
\* it is in the list.
C7_AllowList ==
    Ended =>
        /\ (~AlgUnknown /\ AlgNotAllowed) => EndError = Some("algorithm_not_allowed")
        /\ (~AlgUnknown /\ ~AlgNotAllowed) => EndError # Some("algorithm_not_allowed")
        /\ (~AlgUnknown /\ Opts.algorithms = None) => EndError # Some("algorithm_not_allowed")
        /\ AlgUnknown => EndError = Some("unsupported_algorithm")

\* rsa-pss-sha512 against the list [rsa-v1_5-sha256] ended algorithm_not_allowed
C7_Witness ==
    /\ Ended
    /\ SigIn.alg = A_rsa_pss_sha512
    /\ Opts.algorithms = Some(<<A_rsa_v1_5_sha256>>)
    /\ EndError = Some("algorithm_not_allowed")

\* the first four checks pass
EarlyChecksPass == ~AlgUnknown /\ ~AlgNotAllowed /\ ~TooOld /\ ~FromFuture /\ ~PastExpiry

\* C8: a resolver that throws or rejects yields key_not_found, a verify that
\* returns false yields invalid_signature, a verify that throws yields
\* verification_failed, and none of the three causes is reported under the
\* code of another.
C8_LastStages ==
    (Ended /\ EarlyChecksPass) =>
        /\ (EndError = Some("key_not_found")) <=> ResolverFails
        /\ (EndError = Some("invalid_signature")) <=> (~ResolverFails /\ VerifyAnswer = "false")
        /\ (EndError = Some("verification_failed")) <=> (~ResolverFails /\ VerifyAnswer = "throws")

\* a call whose algorithm's verify threw ended verification_failed
C8_Witness ==
    /\ Ended /\ EarlyChecksPass
    /\ ~ResolverFails /\ VerifyAnswer = "throws"
    /\ EndError = Some("verification_failed")

---------------------------------------------------------------------------
(* Claims about signing and verifying (SpecRoundTrip)                      *)

Bound == Get(signer)
Arrived == Get(arrived)
Untampered == IsSome(arrived) /\ Arrived.kind = "none"

\* a component of the Signer's list has another value on the request that is
\* verified than on the request as it was sent
ChangedCovered ==
    /\ IsSome(arrived)
    /\ \E i \in 1..Len(Bound.components) :
           extractComponent(Arrived.request, Bound.components[i])
               # extractComponent(Arrived.original, Bound.components[i])

\* C1: round trip.  For every bound component list, key and request
\* description, the Signature-Input and Signature headers that sign returned
\* parse to one entry each, and verifySignature on the request received with
\* the same method, URL and headers, with a resolver returning the matching
\* public key (and within the freshness window), returns valid = true with
\* the keyId, algorithm and components bound to the Signer.
C1_RoundTrip ==
    /\ (Untampered /\ vpc = "idle") =>
           /\ Len(parseSignatureInput(headerText(Arrived.request, H_signature_input))) = 1
           /\ Len(parseSignature(headerText(Arrived.request, H_signature))) = 1
    /\ (Ended /\ Untampered /\ ~TooOld) =>
           /\ Get(vresult).value.valid
           /\ Get(vresult).value.keyId = Some(Bound.keyId)
           /\ Get(vresult).value.algorithm = Some(Bound.algorithm)
           /\ Get(vresult).value.components = Some(Bound.components)

---------------------------------------------------------------------------
(* Claims about the middleware (SpecMiddleware)                            *)

\* the handler has ended
Handled == mpc = "done"
\* the handler attached request.httpSignature: the request is accepted
Accepted == Handled /\ IsSome(Get(mreq).httpSignature)
\* the handler sent a response
Responded == Handled /\ Len(Get(reply).sent) > 0
Required == Get(mopts).required

\* C11: a component the caller declared as required that has no value on the
\* request (an absent header, an unknown @-identifier) makes the verification
\* of that request fail: every required component of an accepted request has
\* a value on it, and so a line in the signature base that was verified.
C11_RequiredResolved ==
    Accepted =>
        \A i \in 1..Len(Required) : IsSome(extractComponent(Get(mreq), Required[i]))

\* the WWW-Authenticate header set on the reply, if any
Challenge == prop(Get(reply).headers, H_WWW_Authenticate)
\* the value of the parameter tag="..." of a challenge, None when it has none
ChallengeParam(challenge, tag) ==
    LET opening == <<",", " ">> \o tag \o <<"=", "\"">>
        at == findFrom(challenge, opening, 1)
        from == at + Len(opening)
        closing == indexOfFrom(challenge, "\"", from)
    IN IF at = 0 \/ closing = 0 THEN None
       ELSE Some(SubSeq(challenge, from, closing - 1))
P_headers == <<"h", "e", "a", "d", "e", "r", "s">>
P_error == <<"e", "r", "r", "o", "r">>
\* the identifiers listed by the headers parameter of the challenge sent
ChallengeHeaders == split(Get(ChallengeParam(Get(Challenge), P_headers)), " ")
\* the request the handler was called with carries no Signature header or no
\* Signature-Input header
LacksSignatureHeader ==
    \/ ~IsSome(prop(Get(mreq).headers, H_signature))
    \/ ~IsSome(prop(Get(mreq).headers, H_signature_input))

\* C12: a request without the Signature header or without the Signature-Input
\* header is answered, in the very step the handler is called, with status 401,
\* the body error signature_required and a challenge Signature realm="api"
\* whose headers parameter lists the whole required list; the handler parses
\* nothing, makes no key resolver and does not call verifySignature.
C12_SignatureRequired ==
    (IsSome(mreq) /\ LacksSignatureHeader) =>
        /\ Responded
        /\ Get(reply).statusCode = 401
        /\ Len(Get(reply).sent) = 1
        /\ Get(reply).sent[1].error = "signature_required"
        /\ IsSome(Challenge)
        /\ startsWith(Get(Challenge), CH_realm)
        /\ IsSome(ChallengeParam(Get(Challenge), P_headers))
        /\ ChallengeHeaders = Required
        /\ mlog = <<"send">>
        /\ vpc = "idle" /\ vcalls = <<>>
        /\ ~IsSome(Get(mreq).httpSignature)

\* a request that has a Signature header but no Signature-Input header was
\* answered by a handler made with a required list of its caller
C12_Witness ==
    /\ Responded
    /\ IsSome(prop(Get(mreq).headers, H_signature))
    /\ ~IsSome(prop(Get(mreq).headers, H_signature_input))
    /\ Required = <<C_method, C_x_id>>
    /\ Get(reply).sent[1].error = "signature_required"

\* the two signature headers of the handled request as the parsers read them
ParsedInputs == parseSignatureInput(Get(headerString(Get(mreq), H_signature_input)))
ParsedSignatures == parseSignature(Get(headerString(Get(mreq), H_signature)))
\* the handler was called with a request that has both signature headers
HasBothHeaders ==
    /\ IsSome(mreq)
    /\ IsSome(headerString(Get(mreq), H_signature))
    /\ IsSome(headerString(Get(mreq), H_signature_input))
\* verifySignature was called for the handled request
VerifyCalled == IsSome(mreq) /\ IsSome(vargs)

\* C13: what the handler hands to verifySignature is the first parsed entry
\* of Signature-Input together with an entry of Signature that carries the
\* same label, and it does so once; when both headers parse to entries but no
\* Signature entry has the label of the first input, the request is answered
\* 401 invalid_signature and verifySignature is not called.
C13_FirstEntryByLabel ==
    HasBothHeaders =>
        /\ VerifyCalled =>
              /\ Len(ParsedInputs) >= 1
              /\ Get(vargs).sigInput = ParsedInputs[1]
              /\ Get(vargs).signature.label = ParsedInputs[1].label
              /\ \E i \in 1..Len(ParsedSignatures) : ParsedSignatures[i] = Get(vargs).signature
              /\ Len(SelectSeq(mlog, LAMBDA e : e = "verifySignature")) = 1
        /\ ( /\ Len(ParsedInputs) >= 1 /\ Len(ParsedSignatures) >= 1
             /\ \A i \in 1..Len(ParsedSignatures) :
                    ParsedSignatures[i].label # ParsedInputs[1].label )
           => /\ ~VerifyCalled
              /\ Responded
              /\ Get(reply).statusCode = 401
              /\ Get(reply).sent[1].error = "invalid_signature"

\* a request whose Signature header starts with an entry of another label was
\* accepted on the bytes of its second entry, the one labelled as the first
\* signature input
C13_Witness ==
    /\ Accepted
    /\ Len(ParsedInputs) = 2 /\ Len(ParsedSignatures) = 2
    /\ ParsedSignatures[1].label # ParsedInputs[1].label
    /\ Get(vargs).signature = ParsedSignatures[2]

\* the handled request has a first signature input and a Signature entry of
\* its label: the signature that is to be verified
HasSignatureToVerify ==
    /\ HasBothHeaders
    /\ ~falsy(headerString(Get(mreq), H_signature))
    /\ Len(ParsedInputs) >= 1
    /\ \E i \in 1..Len(ParsedSignatures) : ParsedSignatures[i].label = ParsedInputs[1].label
\* the required components that the signature to be verified does not list
Uncovered ==
    {c \in {Required[i] : i \in 1..Len(Required)} : ~includes(ParsedInputs[1].components, c)}

\* C14: when a required component is not in the component list of the
\* signature to be verified, the request is answered 401 missing_components,
\* the headers parameter of the challenge lists the required components that
\* are not covered and no other, each once, and neither a key resolver was
\* made nor verifySignature called (so no key was resolved and no signature
\* checked), whether or not a JWKS URL is configured.
C14_MissingComponents ==
    (HasSignatureToVerify /\ Uncovered # {}) =>
        /\ Responded
        /\ Get(reply).statusCode = 401
        /\ Len(Get(reply).sent) = 1
        /\ Get(reply).sent[1].error = "missing_components"
        /\ IsSome(Challenge)
        /\ IsSome(ChallengeParam(Get(Challenge), P_headers))
        /\ {ChallengeHeaders[i] : i \in 1..Len(ChallengeHeaders)} = Uncovered
        /\ Len(ChallengeHeaders) = Cardinality(Uncovered)
        /\ ~includes(mlog, "createKeyResolver")
        /\ ~includes(mlog, "verifySignature")
        /\ ~VerifyCalled /\ vcalls = <<>>

\* a handler with the default required list answered a signature that covers
\* @method alone, with no JWKS URL configured
C14_Witness ==
    /\ Responded
    /\ HasSignatureToVerify
    /\ Required = DEFAULT_REQUIRED_COMPONENTS
    /\ ParsedInputs[1].components = <<C_method>>
    /\ ChallengeHeaders = <<C_target_uri, C_authority>>
    /\ ~IsSome(Get(mopts).jwksUrl)

\* how often the handler did something, by its log
Count(what) == Len(SelectSeq(mlog, LAMBDA e : e = what))
\* verifySignature returned a result with valid = true
ReturnedValid ==
    /\ vpc = "returned" /\ IsSome(vresult)
    /\ ~Get(vresult).threw
    /\ Get(vresult).value.valid

Taxonomy ==
    {"signature_required", "invalid_signature", "missing_components",
     "unsupported_algorithm", "algorithm_not_allowed", "signature_expired",
     "signature_future", "key_not_found", "verification_failed", "configuration_error"}

\* C16: a response of the handler has a body of exactly an error code of the
\* taxonomy and a message; with the code configuration_error it has status
\* 500 and is sent by a handler without a JWKS URL, with any other code it has
\* status 401 and a WWW-Authenticate header that begins Signature realm="api".
C16_FailureResponses ==
    Responded =>
        LET body == Get(reply).sent[1] IN
        /\ Len(Get(reply).sent) = 1
        /\ DOMAIN body = {"error", "message"}
        /\ body.error \in Taxonomy
        /\ Len(body.message) > 0
        /\ IF body.error = "configuration_error"
           THEN /\ Get(reply).statusCode = 500
                /\ falsy(Get(mopts).jwksUrl)
           ELSE /\ Get(reply).statusCode = 401
                /\ IsSome(Challenge)
                /\ startsWith(Get(Challenge), CH_realm)

\* a handler without a JWKS URL answered a request whose signature covers
\* every required component
C16_Witness ==
    /\ Responded
    /\ Get(reply).sent[1].error = "configuration_error"
    /\ Get(reply).statusCode = 500
    /\ HasSignatureToVerify /\ Uncovered = {}

---------------------------------------------------------------------------
(* Claims about the header parser (SpecParse)                              *)

Segments == Get(pIn).segments
Parsed == Get(pOut).value
\* a segment that is a signature input with a keyid and an alg
Valid(d) == d.form = "input" /\ IsSome(d.keyid) /\ IsSome(d.alg)
\* the places of the valid segments of the header, in header order
ValidPlaces ==
    SelectSeq([k \in 1..Len(Segments) |-> k], LAMBDA k : Valid(Segments[k]))

\* C17: parseSignatureInput throws on no header; the entries it returns are
\* those of the segments that are a signature input label=(...) with keyid
\* and alg, one entry for each and in header order; every other segment is
\* dropped.
C17_DropInvalid ==
    IsSome(pOut) =>
        /\ ~Get(pOut).threw
        /\ Len(Parsed) = Len(ValidPlaces)
        /\ \A i \in 1..Len(Parsed) : Parsed[i].label = labelOf(ValidPlaces[i])

\* C18: a header written from N signature inputs, each with keyid and alg,
\* is split at the commas between them and nowhere else: it yields N entries
\* under the labels of the inputs, in order, whatever the quoted values hold.
C18_TopLevelSplit ==
    (IsSome(pOut) /\ \A k \in 1..Len(Segments) : Valid(Segments[k])) =>
        /\ Len(Parsed) = Len(Segments)
        /\ \A i \in 1..Len(Parsed) : Parsed[i].label = labelOf(i)

\* C19: every entry returned belongs to a signature input of the header, by
\* its label, and holds that input's components in order (duplicates kept),
\* its keyid and alg, and its created, expires and nonce where it has them,
\* undefined where it has not.
C19_EntryFields ==
    IsSome(pOut) =>
        \A i \in 1..Len(Parsed) :
            \E k \in 1..Len(Segments) :
                /\ labelOf(k) = Parsed[i].label
                /\ Valid(Segments[k])
                /\ Parsed[i].components = Segments[k].components
                /\ Parsed[i].keyid = Get(Segments[k].keyid)
                /\ Parsed[i].alg = Get(Segments[k].alg)
                /\ Parsed[i].created = Segments[k].created
                /\ Parsed[i].expires = Segments[k].expires
                /\ Parsed[i].nonce = Segments[k].nonce

---------------------------------------------------------------------------
(* Claims about the signer (SpecSign)                                      *)

\* sha-256=:<base64 of the SHA-256 of the body>:
ExpectedDigest(body) == T_sha_256 \o uint8ArrayToBase64(sha256(body)) \o <<":">>
\* the lines of the signed base that are lines of the component content-digest
DigestLines(base) ==
    SelectSeq(split(base, "\n"),
              LAMBDA line : startsWith(line, <<"\"">> \o C_content_digest \o <<"\"">>))

\* C20: when content-digest is bound and the request has a body, the headers
\* sign returns hold Content-Digest with the digest of the body, and the
\* signed base has one content-digest line, which carries that digest,
\* whatever headers the caller supplied; otherwise sign leaves Content-Digest
\* as the caller gave it, absent when the caller gave none.
C20_ContentDigest ==
    (IsSome(signer) /\ IsSome(sent)) =>
        LET request == Get(sent).request
            digest == ExpectedDigest(Get(request.body))
        IN IF /\ includes(Get(signer).components, C_content_digest)
              /\ IsSome(request.body) /\ Get(request.body) # <<>>
           THEN /\ prop(Get(sent).headers, H_Content_Digest) = Some(digest)
                /\ DigestLines(Get(sent).base)
                       = << <<"\"">> \o C_content_digest \o <<"\"">> \o COLON_SPACE \o digest >>
           ELSE prop(Get(sent).headers, H_Content_Digest)
                    = prop(request.headers, H_Content_Digest)

\* the header names of a header map
Names(headers) == {headers[i].k : i \in 1..Len(headers)}
\* sign computed a digest for the request of the run
DigestComputed ==
    /\ includes(Get(signer).components, C_content_digest)
    /\ IsSome(Get(sent).request.body) /\ Get(Get(sent).request.body) # <<>>
\* the header names sign writes in the run
Written == {H_Signature_Input, H_Signature}
               \cup (IF DigestComputed THEN {H_Content_Digest} ELSE {})
\* the Signature-Input and Signature headers returned hold one entry each,
\* labelled sig1
OneSig1 ==
    LET inputs == parseSignatureInput(Get(prop(Get(sent).headers, H_Signature_Input)))
        signatures == parseSignature(Get(prop(Get(sent).headers, H_Signature)))
    IN /\ Len(inputs) = 1 /\ inputs[1].label = L_sig1
       /\ Len(signatures) = 1 /\ signatures[1].label = L_sig1

\* C21 as stated: every header of the description is returned unchanged,
\* with Signature-Input and Signature (and Content-Digest when computed)
\* added, one signature under the label sig1, and the caller's description
\* is left as it was.
C21_AllHeadersKept ==
    (IsSome(signer) /\ IsSome(sent)) =>
        /\ \A i \in 1..Len(Get(sent).request.headers) :
               prop(Get(sent).headers, Get(sent).request.headers[i].k)
                   = Some(Get(sent).request.headers[i].v)
        /\ Names(Get(sent).headers) = Names(Get(sent).request.headers) \cup Written
        /\ OneSig1
        /\ Get(sent).after = Get(sent).request

\* C21, amended: every header of the description whose name sign does not
\* write itself is returned unchanged; the names returned are the caller's
\* and Signature-Input, Signature (and Content-Digest when computed), which
\* hold what sign made even where the caller gave a header of that name;
\* there is one signature under the label sig1, and the caller's description
\* is left as it was.
C21_OtherHeadersKept ==
    (IsSome(signer) /\ IsSome(sent)) =>
        /\ \A i \in 1..Len(Get(sent).request.headers) :
               Get(sent).request.headers[i].k \notin Written =>
                   prop(Get(sent).headers, Get(sent).request.headers[i].k)
                       = Some(Get(sent).request.headers[i].v)
        /\ Names(Get(sent).headers) = Names(Get(sent).request.headers) \cup Written
        /\ OneSig1
        /\ DigestComputed =>
               prop(Get(sent).headers, H_Content_Digest)
                   = Some(computeContentDigest(Get(Get(sent).request.body)))
        /\ Get(sent).after = Get(sent).request

\* a description with a header of the caller's own and a Signature header
\* was signed with a digest computed
C21_Witness ==
    /\ IsSome(signer) /\ IsSome(sent)
    /\ DigestComputed
    /\ prop(Get(sent).request.headers, C_x_id) = Some(V_7)
    /\ prop(Get(sent).request.headers, H_Signature) = Some(V_caller_signature)
    /\ prop(Get(sent).headers, C_x_id) = Some(V_7)
    /\ prop(Get(sent).headers, H_Signature) # Some(V_caller_signature)

---------------------------------------------------------------------------
(* Claims about the algorithm registry (SpecRegistry)                      *)

RegistryNames == Algs \cup {A_other_algo, A_never}
\* the algorithm most recently handed to registerAlgorithm under the name
LastRegistered(name) ==
    LET places == {i \in 1..Len(regLog) : regLog[i].name = name} IN
    IF places = {} THEN None
    ELSE Some(regLog[CHOOSE i \in places : \A j \in places : j <= i])

\* C22: getAlgorithm(name) returns the algorithm most recently registered
\* under the name, undefined when none was, and getRegisteredAlgorithms
\* returns each registered name once and no other name, after any
\* registrations and whatever signing and verification took place between.
C22_Registry ==
    /\ \A name \in RegistryNames : getAlgorithm(registry, name) = LastRegistered(name)
    /\ LET names == getRegisteredAlgorithms(registry) IN
           /\ {names[i] : i \in 1..Len(names)} = {regLog[i].name : i \in 1..Len(regLog)}
           /\ \A i, j \in 1..Len(names) : names[i] = names[j] => i = j

\* test-algo was registered twice with different algorithms, a name was
\* never registered, and a verification of a signed request has returned
C22_Witness ==
    /\ \E i, j \in 1..Len(regLog) :
           /\ i < j /\ regLog[i].name = A_test_algo /\ regLog[j].name = A_test_algo
           /\ regLog[i] # regLog[j]
           /\ getAlgorithm(registry, A_test_algo) = Some(regLog[j])
    /\ getAlgorithm(registry, A_other_algo) = None
    /\ IsSome(sent) /\ vpc = "returned" /\ Len(vcalls) = 2

---------------------------------------------------------------------------
(* Claims about the key resolvers (SpecResolver)                           *)

\* C23: no two key-set fetchers were made for one JWKS URL, and every
\* resolver held or used resolves against the fetcher of the URL it was
\* obtained for.
C23_OneFetcherPerUrl ==
    /\ \A i, j \in 1..Len(fetchers) : fetchers[i] = fetchers[j] => i = j
    /\ \A resolver \in held : fetchers[resolver.fetcher] = resolver.asked
    /\ IsSome(lastResolution) =>
           fetchers[Get(lastResolution).fetcher] = Get(lastResolution).asked

---------------------------------------------------------------------------
(* Claims about the distributed lock (SpecLock)                            *)

\* the pairs of different callers that are executing their functions under
\* one lock key
RunningPairs ==
    {pair \in LockCallers \X LockCallers :
        /\ pair[1] # pair[2]
        /\ callers[pair[1]].pc = "running" /\ callers[pair[2]].pc = "running"
        /\ callers[pair[1]].key = callers[pair[2]].key}

\* C24 as stated: no two callers execute their functions under one lock key
\* at one time, however long a function runs.
C24_OneRunner == RunningPairs = {}

\* C24, amended: of two callers that execute their functions under one lock
\* key at one time, one has run past the time to live of its acquisition;
\* no two callers execute within the time to live of their acquisitions.
C24_OneRunnerWithinTtl ==
    \A pair \in RunningPairs :
        rnow >= callers[pair[1]].until \/ rnow >= callers[pair[2]].until

\* a caller executes its function within its time to live while another
\* caller of the same key has been refused the key
C24_Witness ==
    \E c, d \in LockCallers :
        /\ callers[c].pc = "running" /\ rnow < callers[c].until
        /\ callers[d].pc = "acquiring" /\ callers[d].attempts > 0
        /\ callers[d].key = callers[c].key

\* the key of a caller's call is held with the value of its acquisition
HoldsKey(c) ==
    /\ IsSome(prop(locks, callers[c].key))
    /\ Get(prop(locks, callers[c].key)).handle = callers[c].handle

\* C25: once withLock has settled for a caller whose function ran, returned
\* or threw, the key no longer holds the caller's value, so that a later
\* caller can acquire it, and withLock settled as the function did; a caller
\* that was refused the key has not run its function, and its failing leaves
\* every key as it was.
C25_ReleaseAndPassOn ==
    /\ [](\A c \in DOMAIN callers :
             callers[c].pc = "done" =>
                 IF callers[c].ran
                 THEN /\ ~HoldsKey(c)
                      /\ callers[c].op = "withLock" =>
                             callers[c].out = Some(callers[c].fn)
                 ELSE callers[c].op = "withLock" =>
                          callers[c].out = Some(rejected(MSG_failed_to_acquire)))
    /\ [][\A c \in DOMAIN callers :
             (callers[c].pc = "acquiring" /\ callers'[c].pc = "done") =>
                 (locks' = locks /\ ~callers'[c].ran)]_vars

\* withLock settled for a caller whose function threw, and another caller
\* acquired the same key after it
C25_Witness ==
    \E c, d \in DOMAIN callers :
        /\ callers[c].pc = "done" /\ callers[c].ran /\ callers[c].fn.threw
        /\ callers[c].op = "withLock"
        /\ callers[d].pc = "running" /\ callers[d].key = callers[c].key
        /\ callers[d].handle > callers[c].handle

\* C26: runImportWithLock reports acquired = false exactly for the calls
\* that were refused the key, whose functions did not run; for a function
\* that threw an Error it reports acquired = true, the message of the Error
\* and no result; for a function that returned, acquired = true, the result
\* and no error.
C26_ImportResult ==
    \A c \in DOMAIN callers :
        (callers[c].pc = "done" /\ callers[c].op = "runImportWithLock") =>
            LET out == Get(callers[c].out)
                fn == callers[c].fn
            IN /\ out.acquired = callers[c].ran
               /\ (callers[c].ran /\ fn.threw /\ fn.isError) =>
                      (out.error = Some(fn.value) /\ out.result = None)
               /\ (callers[c].ran /\ ~fn.threw) =>
                      (out.result = Some(fn.value) /\ out.error = None)

---------------------------------------------------------------------------
(* Claims about the cache (SpecCache)                                      *)

KeysOf(map) == {map[i].k : i \in 1..Len(map)}
\* the keys of the entries that are not expired
LiveKeys(map, now) == {map[i].k : i \in {j \in 1..Len(map) : ~isExpired(map[j].v, now)}}
\* the key in keys whose last get or set is the oldest
Oldest(order, keys) ==
    order[CHOOSE i \in 1..Len(order) :
              order[i] \in keys /\ \A j \in 1..(i - 1) : order[j] \notin keys]

\* a step that is a set of key
IsSet(key) == lastOp' = Some([op |-> "set", key |-> key]) /\ cache' # cache

\* C27: the cache never holds more than maxEntries entries; a set of a new
\* key into a full cache removes the expired entries and, when the cache is
\* still full, the one entry whose last get or set is the oldest, and no
\* other; a set of an existing key removes no other entry.
C27_LruEviction ==
    /\ [](Len(cache) <= cmax)
    /\ [][\A key \in CacheKeys :
             IsSet(key) =>
                 LET live == LiveKeys(cache, cnow) IN
                 IF key \in KeysOf(cache) THEN KeysOf(cache') = KeysOf(cache)
                 ELSE IF Len(cache) < cmax THEN KeysOf(cache') = KeysOf(cache) \cup {key}
                 ELSE IF Cardinality(live) < cmax THEN KeysOf(cache') = live \cup {key}
                 ELSE KeysOf(cache') = (live \ {Oldest(accessed, live)}) \cup {key}]_vars

---------------------------------------------------------------------------
(* Claims about the OAuth2 service (SpecOAuth)                             *)

\* the token requests of a cache key that have not settled
InFlight(key) ==
    {n \in 1..Len(tokenFetches) :
        tokenFetches[n].key = key /\ tokenFetches[n].state = "pending"}

FetchKeys == {tokenFetches[n].key : n \in 1..Len(tokenFetches)}

\* C28: for each token cache key at most one token request is in flight at
\* any time, and a token request in flight is the one the in-flight marker
\* of its key names: the marker is not removed before that request has
\* settled, and by nothing but that request.
C28_OneFetchInFlight ==
    \A key \in FetchKeys :
        /\ Cardinality(InFlight(key)) <= 1
        /\ \A n \in InFlight(key) : prop(refreshPromises, key) = Some(n)


\* the token requests whose response carried accessToken
IssuedBy(accessToken) ==
    {n \in 1..Len(tokenFetches) : accessTokenOf(n) = accessToken}

\* the access tokens a caller got from getToken or sent in a request
TokensOf(client) ==
    {client.tokens[i] : i \in 1..Len(client.tokens)}
    \cup {accessTokenOf(n) : n \in {m \in 1..Len(tokenFetches) :
              \E i \in 1..Len(client.sends) :
                  prop(client.sends[i], H_Authorization) = Some(T_Bearer \o accessTokenOf(m))}}

\* C30: an access token obtained by token exchange for one subject token is
\* never returned by getToken, or sent by fetch, in a call that supplies a
\* different subject token of the same provider.
C30_SubjectIsolation ==
    \A c \in OAuthClients :
        clients[c].pc # "idle" /\ IsSome(clients[c].call.tokenExchange) =>
            \A accessToken \in TokensOf(clients[c]) :
                \A n \in IssuedBy(accessToken) :
                    /\ tokenFetches[n].provider = clients[c].call.provider
                    /\ IsSome(tokenFetches[n].tokenExchange)
                    => Get(tokenFetches[n].tokenExchange).subjectToken
                       = Get(clients[c].call.tokenExchange).subjectToken


\* the Signature header that verifies over a GET request with these
\* headers, for a signature made by requestSigner at created
SignatureOver(requestSigner, headers, created) ==
    LET request == [method |-> M_GET, url |-> URL_p, headers |-> headers, body |-> None]
        base == buildOutgoingSignatureBase(request, headers, requestSigner.components,
                                           requestSigner.keyId, requestSigner.algorithm,
                                           created)
    IN L_sig1 \o <<"=", ":">>
       \o uint8ArrayToBase64(algoSign(requestSigner.algo, requestSigner.key, encode(base)))
       \o <<":">>

\* the cache key of the call a caller is in
KeyOf(client) == buildCacheKey(client.call.provider, client.call.tokenExchange)

\* C29: fetch sends the request at most twice.  It sends it a second time
\* exactly when the first response has status 401 and the getToken call it
\* then makes returns a token; before that call it deletes the cached token
\* of its key.  The second request carries the token that call returned
\* and, when a signer is supplied, a signature made over the request with
\* that token.  fetch returns the second response whatever its status, and
\* the first response when its status is not 401.
C29_RetryOnce ==
    /\ [](\A c \in OAuthClients :
              LET client == clients[c] IN
              client.pc # "idle" /\ client.call.op = "fetch" =>
                  /\ Len(client.sends) <= 2
                  /\ Len(client.sends) = 2 =>
                         /\ client.statuses[1] = 401
                         /\ Len(client.tokens) = 2
                         /\ IssuedBy(client.tokens[2]) = {client.fetch}
                         /\ prop(client.sends[2], H_Authorization)
                            = Some(T_Bearer \o client.tokens[2])
                         /\ IsSome(client.call.signer) =>
                                \E created \in 0..MaxOAuthTicks :
                                    prop(client.sends[2], H_Signature)
                                    = Some(SignatureOver(Get(client.call.signer),
                                                         client.sends[2], created))
                  /\ client.pc = "done" /\ ~Get(client.out).threw =>
                         /\ Len(client.statuses) = Len(client.sends)
                         /\ Len(client.sends) = IF client.statuses[1] = 401 THEN 2 ELSE 1
                         /\ Get(client.out).value
                            = [status |-> client.statuses[Len(client.statuses)],
                               request |-> Len(client.sends)])
    /\ [][\A c \in OAuthClients :
              /\ clients[c].pc = "awaitResponse"
              /\ Len(clients'[c].statuses) = 1 /\ clients'[c].statuses[1] = 401
              => /\ prop(tokenCache', KeyOf(clients[c])) = None
                 /\ clients'[c].pc = "awaitToken"
                 /\ tokenFetches'[clients'[c].fetch].key = KeyOf(clients[c])]_vars

\* a signed fetch was answered 401 twice and returned the second answer; its
\* second request carried another token and another signature than its first
C29_Witness ==
    \E c \in OAuthClients :
        LET client == clients[c] IN
        /\ client.pc = "done" /\ client.call.op = "fetch" /\ IsSome(client.call.signer)
        /\ client.statuses = <<401, 401>>
        /\ Len(client.sends) = 2 /\ Len(client.tokens) = 2
        /\ client.tokens[1] # client.tokens[2]
        /\ prop(client.sends[1], H_Signature) # prop(client.sends[2], H_Signature)
        /\ Get(client.out).value.status = 401

===========================================================================
